---- MODULE Spec2Model ----
(***************************************************************************)
(* A model of the VFMC core (rust-src/src): the move algebra of            *)
(* Algorithm::append, the cube and the per-stage classifiers, and the      *)
(* filtered solve of solver.rs.                                            *)
(***************************************************************************)
EXTENDS Integers, Sequences, FiniteSets, TLC

VARIABLES
    alg,        \* the Algorithm handle being edited: [normal_moves, inverse_moves]
    prev,       \* the Algorithm the last append / merge was called on
    last,       \* the last Algorithm operation: [op, turn, inverse]
    cube,       \* the Cube handle
    before,     \* the cube before the last Cube::apply
    applied,    \* the last Cube operation: [op, alg]
    turns,      \* the number of moves made on the cube a StepInfo is asked about
    asked,      \* the last StepInfo query and its answers
    solver      \* one solve call: its request, the search's place, the filters' state

algVars == <<alg, prev, last>>
cubeVars == <<cube, before, applied>>
stageVars == <<turns, asked, solver>>
vars == <<algVars, cubeVars, stageVars>>

(***************************************************************************)
(* Bounds of the model.                                                    *)
(***************************************************************************)
\* longest Algorithm (both sides together) an append may be called on
MaxAlgLen == 2
\* longest Algorithm (both sides together) applied to a cube
MaxApplyLen == 2
\* most moves made on a scrambled cube before a StepInfo is asked about it
MaxStageTurns == 1

(***************************************************************************)
(* Moves: cubelib's Turn333 {face, dir}.                                   *)
(***************************************************************************)
Faces == {"U", "D", "F", "B", "R", "L"}
Directions == {"Clockwise", "Half", "CounterClockwise"}
Turns == [face : Faces, dir : Directions]

T(f, d) == [face |-> f, dir |-> d]

\* Face::opposite
opposite(f) ==
    CASE f = "U" -> "D" [] f = "D" -> "U"
      [] f = "F" -> "B" [] f = "B" -> "F"
      [] f = "R" -> "L" [] f = "L" -> "R"

\* Direction::invert
invert_dir(d) ==
    CASE d = "Clockwise" -> "CounterClockwise"
      [] d = "CounterClockwise" -> "Clockwise"
      [] d = "Half" -> "Half"

\* Turn333::invert
invert(t) == [face |-> t.face, dir |-> invert_dir(t.dir)]

\* number of clockwise quarter turns a direction stands for
q(d) == CASE d = "Clockwise" -> 1 [] d = "Half" -> 2 [] d = "CounterClockwise" -> 3

\* the direction of n clockwise quarter turns
dir_of(n) == CASE n = 1 -> "Clockwise" [] n = 2 -> "Half" [] n = 3 -> "CounterClockwise"

(***************************************************************************)
(* Algorithm: two move sequences.                                          *)
(***************************************************************************)
Alg(n, i) == [normal_moves |-> n, inverse_moves |-> i]
EmptyAlg == Alg(<<>>, <<>>)

\* Algorithm::len
len(a) == Len(a.normal_moves) + Len(a.inverse_moves)

\* Vec::remove(i), 1-based
RemoveAt(s, i) == [j \in 1..(Len(s) - 1) |-> IF j < i THEN s[j] ELSE s[j + 1]]

\* the match of append_move on (last_move.dir, turn.dir), lib.rs:114-132
combine_wrong(last_move, turn) ==
    CASE last_move.dir = "Half" -> turn
      [] turn.dir = "Half" -> invert(last_move)
      [] OTHER -> [face |-> turn.face, dir |-> "Half"]

combine(last_move, turn) ==
    CASE last_move.dir = "Half" -> invert(turn)
      [] turn.dir = "Half" -> invert(last_move)
      [] OTHER -> [face |-> turn.face, dir |-> "Half"]

\* a scan that stops at the first move that is not the appended move's face
scan_no_skip(new_moves, turn, i) ==
    IF i = 0 THEN [moves |-> new_moves, cancels |-> FALSE]
    ELSE LET last_move == new_moves[i] IN
         IF last_move = invert(turn)
         THEN [moves |-> RemoveAt(new_moves, i), cancels |-> TRUE]
         ELSE IF last_move.face = turn.face
         THEN [moves |-> [new_moves EXCEPT ![i] = combine(last_move, turn)],
               cancels |-> TRUE]
         ELSE [moves |-> new_moves, cancels |-> FALSE]

\* the loop `for i in (0..new_moves.len()).rev()` of append_move, from index i
\* down; the result is [moves, cancels]
RECURSIVE scan(_, _, _)
scan(new_moves, turn, i) ==
    IF i = 0 THEN [moves |-> new_moves, cancels |-> FALSE]
    ELSE LET last_move == new_moves[i] IN
         IF last_move = invert(turn)
         THEN [moves |-> RemoveAt(new_moves, i), cancels |-> TRUE]
         ELSE IF last_move.face = turn.face
         THEN [moves |-> [new_moves EXCEPT ![i] = combine(last_move, turn)],
               cancels |-> TRUE]
         ELSE IF last_move.face # opposite(turn.face)
         THEN [moves |-> new_moves, cancels |-> FALSE]
         ELSE scan(new_moves, turn, i - 1)

\* an append that pushes the move whatever the scan did
append_side_push(moves, turn) ==
    Append(scan(moves, turn, Len(moves)).moves, turn)

\* one side of append_move: scan, then push when nothing cancelled
append_side(moves, turn) ==
    LET r == scan(moves, turn, Len(moves)) IN
    IF r.cancels THEN r.moves ELSE Append(r.moves, turn)

\* append_move(alg, turn, inverse), lib.rs:100-152
append_move(a, turn, inverse) ==
    IF inverse
    THEN Alg(a.normal_moves, append_side(a.inverse_moves, turn))
    ELSE Alg(append_side(a.normal_moves, turn), a.inverse_moves)

\* Algorithm::append: a parsed move, then append_move
Algorithm_append(a, turn, inverse) == append_move(a, turn, inverse)

RECURSIVE append_all(_, _, _)
append_all(a, moves, inverse) ==
    IF moves = <<>> THEN a
    ELSE append_all(append_move(a, Head(moves), inverse), Tail(moves), inverse)

\* Algorithm::merge: other's normal moves, then other's inverse moves
merge(a, other) ==
    append_all(append_all(a, other.normal_moves, FALSE), other.inverse_moves, TRUE)

(***************************************************************************)
(* The cube: cubelib's Cube333.  Edge positions 0..11 are UB UR UF UL FR   *)
(* FL BR BL DF DR DB DL, corner positions 0..7 are UBL UBR UFR UFL DFL DFR *)
(* DBR DBL.  An edge carries its id and one orientation bit per axis, a    *)
(* corner its id and its twist 0..2.                                       *)
(***************************************************************************)
EdgePositions == 0..11
CornerPositions == 0..7

Edge(id, ud, fb, rl) ==
    [id |-> id, oriented_ud |-> ud, oriented_fb |-> fb, oriented_rl |-> rl]
Corner(id, o) == [id |-> id, orientation |-> o]

\* the array of the twelve edges, and of the eight corners: the piece at
\* position p is element p + 1
EdgeArray(e) ==
    <<e[0], e[1], e[2], e[3], e[4], e[5], e[6], e[7], e[8], e[9], e[10], e[11]>>

CornerArray(c) ==
    <<c[0], c[1], c[2], c[3], c[4], c[5], c[6], c[7]>>

\* cube.edges.get_edges()[p] and cube.corners.get_corners()[p]
edge_at(c, p) == c.edges[p + 1]
corner_at(c, p) == c.corners[p + 1]

\* Cube333::default, the solved cube
Cube333_default ==
    [edges |-> EdgeArray([p \in EdgePositions |-> Edge(p, TRUE, TRUE, TRUE)]),
     corners |-> CornerArray([p \in CornerPositions |-> Corner(p, 0)])]

\* the positions a clockwise quarter turn of a face cycles: the piece at
\* cycle[k] goes to cycle[k+1]
EdgeCycle(f) ==
    CASE f = "U" -> <<0, 1, 2, 3>>
      [] f = "D" -> <<8, 9, 10, 11>>
      [] f = "F" -> <<2, 4, 8, 5>>
      [] f = "B" -> <<0, 7, 10, 6>>
      [] f = "R" -> <<1, 6, 9, 4>>
      [] f = "L" -> <<3, 5, 11, 7>>

CornerCycle(f) ==
    CASE f = "U" -> <<0, 1, 2, 3>>
      [] f = "D" -> <<4, 5, 6, 7>>
      [] f = "F" -> <<2, 5, 4, 3>>
      [] f = "B" -> <<0, 7, 6, 1>>
      [] f = "R" -> <<1, 6, 5, 2>>
      [] f = "L" -> <<0, 3, 4, 7>>

\* the twist a clockwise quarter turn adds to the corner that leaves cycle[k]
CornerTwist(f) ==
    CASE f \in {"U", "D"} -> <<0, 0, 0, 0>>
      [] f = "L" -> <<1, 2, 1, 2>>
      [] OTHER -> <<2, 1, 2, 1>>

\* the index of p in a cycle, 0 when p is not in it
IndexIn(cycle, p) ==
    IF \E k \in 1..4 : cycle[k] = p THEN CHOOSE k \in 1..4 : cycle[k] = p ELSE 0

\* the index n places before k in a 4-cycle
Back(k, n) == ((k - 1 + 4 - n) % 4) + 1

\* the twist picked up over the n quarter turns that end at cycle[k]
RECURSIVE TwistSum(_, _, _)
TwistSum(tw, k, n) ==
    IF n = 0 THEN 0 ELSE (tw[Back(k, n)] + TwistSum(tw, k, n - 1)) % 3

\* an odd number of quarter turns flips the orientation bit of the turn's axis
flip_edge(e, f, n) ==
    IF n % 2 = 0 THEN e
    ELSE Edge(e.id,
              IF f \in {"U", "D"} THEN ~e.oriented_ud ELSE e.oriented_ud,
              IF f \in {"F", "B"} THEN ~e.oriented_fb ELSE e.oriented_fb,
              IF f \in {"R", "L"} THEN ~e.oriented_rl ELSE e.oriented_rl)

\* what n clockwise quarter turns of face f do: for every position the
\* position its piece comes from, and the twist a corner picks up
TurnTable(f, n) ==
    LET ec == EdgeCycle(f)
        cc == CornerCycle(f)
        tw == CornerTwist(f)
    IN  [edge_from |-> EdgeArray([p \in EdgePositions |->
                           LET k == IndexIn(ec, p) IN
                           IF k = 0 THEN p ELSE ec[Back(k, n)]]),
         corner_from |-> CornerArray([p \in CornerPositions |->
                           LET k == IndexIn(cc, p) IN
                           IF k = 0 THEN p ELSE cc[Back(k, n)]]),
         twist |-> CornerArray([p \in CornerPositions |->
                           LET k == IndexIn(cc, p) IN
                           IF k = 0 THEN 0 ELSE TwistSum(tw, k, n)])]

FaceTable(f) == <<TurnTable(f, 1), TurnTable(f, 2), TurnTable(f, 3)>>

FaceIndex(f) ==
    CASE f = "U" -> 1 [] f = "D" -> 2 [] f = "F" -> 3
      [] f = "B" -> 4 [] f = "R" -> 5 [] f = "L" -> 6

TurnTables ==
    <<FaceTable("U"), FaceTable("D"), FaceTable("F"),
      FaceTable("B"), FaceTable("R"), FaceTable("L")>>

\* the pieces of c moved as table tbl of n quarter turns of face f says
turn_by_table(c, f, n, tbl) ==
    [edges |-> EdgeArray([p \in EdgePositions |->
                   IF tbl.edge_from[p + 1] = p THEN edge_at(c, p)
                   ELSE flip_edge(edge_at(c, tbl.edge_from[p + 1]), f, n)]),
     corners |-> CornerArray([p \in CornerPositions |->
                   Corner(corner_at(c, tbl.corner_from[p + 1]).id,
                          (corner_at(c, tbl.corner_from[p + 1]).orientation
                               + tbl.twist[p + 1]) % 3)])]

\* Cube333::turn: q(dir) clockwise quarter turns of the face
Cube333_turn(c, t) ==
    turn_by_table(c, t.face, q(t.dir), TurnTables[FaceIndex(t.face)][q(t.dir)])

RECURSIVE apply_turns(_, _)
apply_turns(c, moves) ==
    IF moves = <<>> THEN c
    ELSE apply_turns(Cube333_turn(c, Head(moves)), Tail(moves))

\* Cube333::invert: every piece goes to the position named by its id
Cube_invert(c) ==
    [edges |-> EdgeArray([i \in EdgePositions |->
                   LET p == CHOOSE p \in EdgePositions : edge_at(c, p).id = i
                       e == edge_at(c, p)
                   IN  Edge(p, e.oriented_ud, e.oriented_fb, e.oriented_rl)]),
     corners |-> CornerArray([i \in CornerPositions |->
                   LET p == CHOOSE p \in CornerPositions : corner_at(c, p).id = i
                   IN  Corner(p, (3 - corner_at(c, p).orientation) % 3)])]

\* Cube333::apply_alg: the normal moves, then the inverse moves on the
\* inverted cube
apply_inverse_moves(n, moves) ==
    IF moves = <<>> THEN n
    ELSE Cube_invert(apply_turns(Cube_invert(n), moves))

apply_alg(c, a) ==
    apply_inverse_moves(apply_turns(c, a.normal_moves), a.inverse_moves)

\* Cube::apply
Cube_apply(c, a) == apply_alg(c, a)

RECURSIVE invert_moves(_)
invert_moves(moves) ==
    IF moves = <<>> THEN <<>>
    ELSE Append(invert_moves(Tail(moves)), invert(Head(moves)))

\* an inversion that keeps the order of the moves
inverted_unreversed(a) ==
    Alg([i \in 1..Len(a.normal_moves) |-> invert(a.normal_moves[i])],
        [i \in 1..Len(a.inverse_moves) |-> invert(a.inverse_moves[i])])

\* cubelib Algorithm::invert: each side reversed, each move inverted
alg_invert(a) == Alg(invert_moves(a.normal_moves), invert_moves(a.inverse_moves))

\* Algorithm::inverted
inverted(a) == alg_invert(a)

\* Algorithm::on_inverse
on_inverse(a) == Alg(a.inverse_moves, a.normal_moves)

\* Cube::new(scramble): the parsed scramble applied to the solved cube
Cube_new(scramble) == apply_alg(Cube333_default, scramble)

\* a move written as face and number of clockwise quarter turns
M(f, n) == T(f, dir_of(n))

\* the scrambles cubes are built from
Scrambles ==
    {EmptyAlg,
     Alg(<<M("F", 1)>>, <<>>),
     Alg(<<M("R", 1), M("U", 1), M("F", 3)>>, <<>>),
     Alg(<<M("R", 1), M("U", 2)>>, <<M("L", 3), M("D", 1)>>),
     Alg(<<M("U", 2), M("D", 2), M("F", 2), M("U", 2), M("D", 2), M("B", 2),
           M("U", 2)>>, <<>>)}

\* the algorithms merged into the edited one
MergeOperands ==
    {Alg(<<M("F", 1), M("B", 1)>>, <<>>),
     Alg(<<M("F", 1), M("F", 1)>>, <<M("F", 3)>>),
     Alg(<<M("R", 1)>>, <<M("B", 2), M("F", 1)>>)}

(***************************************************************************)
(* cubelib's observers of a cube: bad-edge counts, whole-cube rotations    *)
(* and the coordinates the stages test against zero.                       *)
(***************************************************************************)
count_bad_edges_ud(c) == Cardinality({p \in EdgePositions : ~edge_at(c, p).oriented_ud})
count_bad_edges_fb(c) == Cardinality({p \in EdgePositions : ~edge_at(c, p).oriented_fb})
count_bad_edges_lr(c) == Cardinality({p \in EdgePositions : ~edge_at(c, p).oriented_rl})

Transformations == {"X", "Xi", "Y", "Z"}

\* where a whole-cube rotation takes each edge position and corner position,
\* and the slot the rotated corner position shows its first facelet in
TransformEdges(t) ==
    CASE t = "X"  -> <<10, 6, 0, 7, 1, 3, 9, 11, 2, 4, 8, 5>>
      [] t = "Xi" -> <<2, 4, 8, 5, 9, 11, 1, 3, 10, 6, 0, 7>>
      [] t = "Y"  -> <<1, 2, 3, 0, 5, 7, 4, 6, 11, 8, 9, 10>>
      [] t = "Z"  -> <<6, 9, 4, 1, 8, 2, 10, 0, 5, 11, 7, 3>>

TransformCorners(t) ==
    CASE t = "X"  -> <<7, 6, 1, 0, 3, 2, 5, 4>>
      [] t = "Xi" -> <<3, 2, 5, 4, 7, 6, 1, 0>>
      [] t = "Y"  -> <<1, 2, 3, 0, 7, 4, 5, 6>>
      [] t = "Z"  -> <<1, 6, 5, 2, 3, 4, 7, 0>>

TransformSlots(t) ==
    CASE t \in {"X", "Xi"} -> <<1, 2, 1, 2, 1, 2, 1, 2>>
      [] t = "Y" -> <<0, 0, 0, 0, 0, 0, 0, 0>>
      [] t = "Z" -> <<2, 1, 2, 1, 2, 1, 2, 1>>

\* the orientation bits of an edge after the rotation: the two axes the
\* rotation exchanges trade their bits
transform_edge(e, id, t) ==
    CASE t \in {"X", "Xi"} -> Edge(id, e.oriented_fb, e.oriented_ud, e.oriented_rl)
      [] t = "Y" -> Edge(id, e.oriented_ud, e.oriented_rl, e.oriented_fb)
      [] t = "Z" -> Edge(id, e.oriented_rl, e.oriented_fb, e.oriented_ud)

\* Cube333::transform: the cube as seen after the whole-cube rotation
transform(c, t) ==
    LET ep == TransformEdges(t)
        cp == TransformCorners(t)
        sl == TransformSlots(t)
    IN  [edges |-> EdgeArray([d \in EdgePositions |->
                       LET p == CHOOSE p \in EdgePositions : ep[p + 1] = d
                           e == edge_at(c, p)
                       IN  transform_edge(e, ep[e.id + 1], t)]),
         corners |-> CornerArray([d \in CornerPositions |->
                       LET p == CHOOSE p \in CornerPositions : cp[p + 1] = d
                           k == corner_at(c, p)
                       IN  Corner(cp[k.id + 1],
                                  (k.orientation + sl[p + 1] + 3 - sl[k.id + 1]) % 3)])]

\* the slice an edge position belongs to: E-slice positions are 4..7, M-slice
\* positions UB UF DF DB, S-slice positions UR UL DR DL
edge_slice(p) == IF p \in 4..7 THEN "E" ELSE IF p % 2 = 0 THEN "M" ELSE "S"

AllEdgesOriented(c) ==
    \A p \in EdgePositions :
        LET e == edge_at(c, p) IN e.oriented_ud /\ e.oriented_fb /\ e.oriented_rl

AllCornersOriented(c) ==
    \A p \in CornerPositions : corner_at(c, p).orientation = 0

\* a cube with the corners and the U- and D-layer edges of c and the E-slice
\* edges at home
NoSlice(c) ==
    [edges |-> EdgeArray([p \in EdgePositions |->
                   IF p \in 4..7 THEN edge_at(Cube333_default, p) ELSE edge_at(c, p)]),
     corners |-> c.corners]

HalfTurn(f) == T(f, "Half")

\* the two pairs of corner positions of one tetrad (0 2 4 6, or 1 3 5 7 with
\* offset 1) that a half turn about the axis exchanges
TetradPairs(axis, offset) ==
    LET pairs == CASE axis = "ud" -> {{0, 2}, {4, 6}}
                   [] axis = "fb" -> {{2, 4}, {0, 6}}
                   [] axis = "rl" -> {{2, 6}, {0, 4}}
    IN  {{p + offset : p \in pair} : pair \in pairs}

\* the pairs of the tetrad's home labels (offset removed) found in the pairs
\* of positions of the axis
TetradImage(c, axis, offset) ==
    {{corner_at(c, p).id - offset : p \in pair} : pair \in TetradPairs(axis, offset)}

\* the corner arrangements of the half-turn group: every corner in its own
\* tetrad, and both tetrads permuting the three axis pairings alike
HalfTurnCorners(c) ==
    /\ \A p \in CornerPositions : corner_at(c, p).id % 2 = p % 2
    /\ \A axis \in {"ud", "fb", "rl"} :
           TetradImage(c, axis, 0) = TetradImage(c, axis, 1)

EDGE_OPPOSITE_E_SLICE == <<10, 9, 8, 11, 4, 5, 6, 7, 2, 1, 0, 3>>
EDGE_OPPOSITE_S_SLICE == <<2, 1, 0, 3, 6, 7, 4, 5, 10, 9, 8, 11>>
EDGE_OPPOSITE_M_SLICE == <<0, 3, 2, 1, 5, 4, 7, 6, 8, 11, 10, 9>>

CORNER_OPPOSITE_E_SLICE == <<7, 6, 5, 4, 3, 2, 1, 0>>
CORNER_OPPOSITE_S_SLICE == <<3, 2, 1, 0, 7, 6, 5, 4>>
CORNER_OPPOSITE_M_SLICE == <<1, 0, 3, 2, 5, 4, 7, 6>>

\* the column (0..3) of a corner position: a U-layer corner and the D-layer
\* corner below it
CornerColumn(p) == IF p < 4 THEN p ELSE CORNER_OPPOSITE_E_SLICE[p + 1]

\* the number of pairs of columns that stand in exchanged order
ColumnInversions(c) ==
    Cardinality({pq \in (0..3) \X (0..3) :
                    /\ pq[1] < pq[2]
                    /\ CornerColumn(corner_at(c, pq[1]).id)
                           > CornerColumn(corner_at(c, pq[2]).id)})

\* the arrangements of corners and U- and D-layer edges that F2, B2, R2, L2
\* reach: every U- or D-layer edge at home or straight below or above it, the
\* corners moving as whole columns that turn over with every step, and as
\* many exchanged edges as the column permutation is odd or even
FloppyNoSlice(c) ==
    /\ \A p \in EdgePositions \ (4..7) :
           edge_at(c, p).id \in {p, EDGE_OPPOSITE_E_SLICE[p + 1]}
    /\ \A p \in CornerPositions :
           LET k == corner_at(c, p) IN
           /\ corner_at(c, CORNER_OPPOSITE_E_SLICE[p + 1]).id
                  = CORNER_OPPOSITE_E_SLICE[k.id + 1]
           /\ ((k.id < 4) = (p < 4))
                  = (CornerColumn(k.id) % 2 = CornerColumn(p) % 2)
    /\ (Cardinality({p \in 0..3 : edge_at(c, p).id # p}) + ColumnInversions(c)) % 2 = 0

\* the cube is in the half-turn group
InHTR(c) ==
    /\ AllEdgesOriented(c)
    /\ AllCornersOriented(c)
    /\ \A p \in EdgePositions : edge_slice(edge_at(c, p).id) = edge_slice(p)
    /\ HalfTurnCorners(c)

\* DRUDEOFBCoord::from(cube).val() == 0: corners oriented along UD and the
\* E-slice edges in the E slice
DRUDEOFBCoord_is_zero(c) ==
    /\ AllCornersOriented(c)
    /\ \A p \in 4..7 : edge_at(c, p).id \in 4..7

\* the cube is a domino-reduced cube on the UD axis
InDRUD(c) ==
    /\ count_bad_edges_fb(c) = 0
    /\ count_bad_edges_lr(c) = 0
    /\ DRUDEOFBCoord_is_zero(c)

\* cube.get_dr_subset(): "None" when the cube is domino-reduced on no axis,
\* else the descriptor, of which only qt = 0 (nothing but half turns are
\* left) is modelled
get_dr_subset(c) ==
    IF InDRUD(c) \/ InDRUD(transform(c, "X")) \/ InDRUD(transform(c, "Z"))
    THEN [some |-> TRUE, qt_is_zero |-> InHTR(c)]
    ELSE [some |-> FALSE, qt_is_zero |-> FALSE]

\* FRUDNoSliceCoord::from(cube).val() == 0
FRUDNoSliceCoord_is_zero(c) == InHTR(c) /\ FloppyNoSlice(c)

\* HTRLeaveSliceFinishCoord::from(cube).val() == 0: everything but the
\* E-slice edges is solved
HTRLeaveSliceFinishCoord_is_zero(c) == InHTR(c) /\ NoSlice(c) = Cube333_default

\* HTRFinishCoord::from(cube).val() == 0
HTRFinishCoord_is_zero(c) == c = Cube333_default

(***************************************************************************)
(* Visibility: the flags a stage gives every facelet of every piece.       *)
(***************************************************************************)
\* enum Visibility (Any is written Visibility_Any: the TLC module owns Any)
Visibility_Any == 1
BadFace == 2
BadPiece == 4
HtrD == 8
TopColor == 16

\* the u8 operator |
RECURSIVE BitOr(_, _)
BitOr(a, b) ==
    IF a = 0 THEN b
    ELSE IF b = 0 THEN a
    ELSE (IF a % 2 = 1 \/ b % 2 = 1 THEN 1 ELSE 0) + 2 * BitOr(a \div 2, b \div 2)

\* v & bit != 0, for a one-bit mask
HasBit(v, bit) == (v \div bit) % 2 = 1

\* Option<u8>: None is the empty set and Some(x) the set of x
None == {}
Some(x) == {x}

EDGE_UD_FACELETS ==
    <<Some(0), Some(0), Some(0), Some(0), None, None, None, None,
      Some(0), Some(0), Some(0), Some(0)>>
EDGE_FB_FACELETS ==
    <<Some(1), None, Some(1), None, Some(0), Some(0), Some(0), Some(0),
      Some(1), None, Some(1), None>>
EDGE_RL_FACELETS ==
    <<None, Some(1), None, Some(1), Some(1), Some(1), Some(1), Some(1),
      None, Some(1), None, Some(1)>>
CORNER_UD_FACELETS == <<0, 0, 0, 0, 0, 0, 0, 0>>
CORNER_FB_FACELETS == <<2, 1, 2, 1, 2, 1, 2, 1>>
CORNER_RL_FACELETS == <<1, 2, 1, 2, 1, 2, 1, 2>>

\* trait DrawableCorner
oriented_ud(k, pos) == k.orientation = 0
oriented_fb(k, pos) ==
    IF (k.id + pos) % 2 = 0 THEN k.orientation = 0
    ELSE k.orientation = 2 - (k.id % 2)
oriented_rl(k, pos) ==
    IF (k.id + pos) % 2 = 0 THEN k.orientation = 0
    ELSE k.orientation = 1 + (k.id % 2)
facelet_showing_ud(k) == k.orientation
facelet_showing_fb(k) == (k.orientation + 2 - (k.id % 2)) % 3
facelet_showing_rl(k) == (k.orientation + 1 + (k.id % 2)) % 3

(***************************************************************************)
(* solver.rs: how a stage's solve call configures the search.              *)
(***************************************************************************)
\* the NissSwitchType of the calls that name none
NissUnset == "Unset"

\* step_config
step_config(kind, variant, niss) ==
    [kind |-> kind,
     substeps |-> IF variant = "" THEN None ELSE Some(<<variant>>),
     min |-> None,
     max |-> Some(40),
     step_limit |-> None,
     quality |-> 0,
     niss |-> Some(niss)]

\* the stages searched before a stage of each kind
PrerequisiteKinds(kind) ==
    CASE kind = "EO" -> <<>>
      [] kind = "DR" -> <<"EO">>
      [] kind = "HTR" -> <<"EO", "DR">>
      [] OTHER -> <<"EO", "DR", "HTR">>

\* the builder single_step hands a configuration of each kind to
BuilderOf(kind) ==
    CASE kind = "EO" -> "EOBuilder"
      [] kind = "DR" -> "DRBuilder"
      [] kind = "HTR" -> "HTRBuilder"
      [] kind \in {"FR", "FRLS"} -> "FRBuilder"
      [] kind \in {"FIN", "FINLS"} -> "HTRFinishBuilder"

\* a step group of one built step
Built(step) == [builder |-> BuilderOf(step.kind), step |-> step]

\* a single_step that puts the prerequisite stages, enforced with
\* step_limit 1 and max 0, before the step
single_step_with_chain(step) ==
    IF step.kind \in {"EO", "DR", "HTR", "FR", "FRLS", "FIN", "FINLS"}
    THEN [ok |-> [n \in 1..Len(PrerequisiteKinds(step.kind)) |->
                    Built([step EXCEPT !.kind = PrerequisiteKinds(step.kind)[n],
                                       !.step_limit = {1}, !.max = {0}])]
                 \o <<Built(step)>>]
    ELSE [err |-> "Unsupported step kind: " \o step.kind]

\* single_step: the step group the builder of the step's kind builds from
\* the one configuration, as the sequence of its steps
single_step(step) ==
    IF step.kind \in {"EO", "DR", "HTR", "FR", "FRLS", "FIN", "FINLS"}
    THEN [ok |-> <<Built(step)>>]
    ELSE [err |-> "Unsupported step kind: " \o step.kind]

\* a solve_step_impl whose predicates never hold the canonicality filter
solve_step_impl_uncanonical(cfg, require_canonical, case_id) ==
    [cfg |-> cfg,
     step_config |-> single_step(cfg),
     predicates |-> <<[name |-> "FilterFirstN", n |-> 10000],
                      [name |-> "FilterDupCaseID", case_id |-> case_id]>>]

\* solve_step_impl: the step configuration and the predicates a solution
\* has to pass, in the order they are pushed
solve_step_impl(cfg, require_canonical, case_id) ==
    [cfg |-> cfg,
     step_config |-> single_step(cfg),
     predicates |->
        (IF require_canonical
         THEN <<[name |-> "FilterLastMoveNotPrime"]>> ELSE <<>>)
        \o <<[name |-> "FilterFirstN", n |-> 10000],
             [name |-> "FilterDupCaseID", case_id |-> case_id]>>]

\* the case_id functions: raw, and the closure is_equivalent(transform) builds
raw_fn == [fn |-> "raw"]
is_equivalent(t) == [fn |-> "is_equivalent", transform |-> t]

solve_step(cfg, require_canonical) ==
    solve_step_impl(cfg, require_canonical, raw_fn)

solve_step_deduplicated(cfg, require_canonical, case_id) ==
    solve_step_impl(cfg, require_canonical, case_id)

\* Err(PyValueError)
Err(msg) == [err |-> msg]

(***************************************************************************)
(* The stages: each impl Solvable is a record of what its methods return   *)
(* for a cube.                                                             *)
(***************************************************************************)
\* the facelet arguments StepInfo passes
\* Subset's Display: the label of the cube's DR subset.  It is a function
\* of the corners; the label is kept as the text of what it is a function of
Subset_to_string(c) == "subset" \o ToString(c.corners)

\* the corner case FRUD::case_name reads off FRCPOrbitCoord, a function of
\* the corners, and FROrbitParityCoord, a function of the cube: one of six
\* labels, kept as the text of what the two coordinates are functions of
FR_corner_case(c) ==
    "corner_case(" \o ToString(c.corners) \o "," \o ToString(c) \o ")"

EdgeFacelets == {0, 1}
CornerFacelets == {0, 1, 2}

\* an EOUD that marks the facelets of a misoriented edge BAD_FACE alone
EOUD_face_only(c) ==
    [is_solved |->
        count_bad_edges_ud(c) = 0,
     is_eligible |->
        TRUE,
     case_name |->
        ToString(count_bad_edges_ud(c)) \o "e",
     edge_visibility |->
        [pos \in EdgePositions, facelet \in EdgeFacelets |->
            IF ~edge_at(c, pos).oriented_ud THEN BadFace ELSE Visibility_Any],
     corner_visibility |->
        [pos \in CornerPositions, facelet \in CornerFacelets |->
            Visibility_Any],
     solve |->
        solve_step(step_config("EO", "ud", NissUnset), TRUE)]

\* impl Solvable for EOUD, EOFB, EORL
EOUD(c) ==
    [is_solved |->
        count_bad_edges_ud(c) = 0,
     is_eligible |->
        TRUE,
     case_name |->
        ToString(count_bad_edges_ud(c)) \o "e",
     edge_visibility |->
        [pos \in EdgePositions, facelet \in EdgeFacelets |->
            IF ~edge_at(c, pos).oriented_ud THEN BitOr(BadFace, BadPiece) ELSE Visibility_Any],
     corner_visibility |->
        [pos \in CornerPositions, facelet \in CornerFacelets |->
            Visibility_Any],
     solve |->
        solve_step(step_config("EO", "ud", NissUnset), TRUE)]

EOFB(c) ==
    [is_solved |->
        count_bad_edges_fb(c) = 0,
     is_eligible |->
        TRUE,
     case_name |->
        ToString(count_bad_edges_fb(c)) \o "e",
     edge_visibility |->
        [pos \in EdgePositions, facelet \in EdgeFacelets |->
            IF ~edge_at(c, pos).oriented_fb THEN BitOr(BadFace, BadPiece) ELSE Visibility_Any],
     corner_visibility |->
        [pos \in CornerPositions, facelet \in CornerFacelets |->
            Visibility_Any],
     solve |->
        solve_step(step_config("EO", "fb", NissUnset), TRUE)]

\* the RL variant of EO flagging the edges misoriented on the FB axis
EORL_flags_fb_edges(c) ==
    [is_solved |->
        count_bad_edges_lr(c) = 0,
     is_eligible |->
        TRUE,
     case_name |->
        ToString(count_bad_edges_lr(c)) \o "e",
     edge_visibility |->
        [pos \in EdgePositions, facelet \in EdgeFacelets |->
            IF ~edge_at(c, pos).oriented_fb THEN BitOr(BadFace, BadPiece) ELSE Visibility_Any],
     corner_visibility |->
        [pos \in CornerPositions, facelet \in CornerFacelets |->
            Visibility_Any],
     solve |->
        solve_step(step_config("EO", "lr", NissUnset), TRUE)]

EORL(c) ==
    [is_solved |->
        count_bad_edges_lr(c) = 0,
     is_eligible |->
        TRUE,
     case_name |->
        ToString(count_bad_edges_lr(c)) \o "e",
     edge_visibility |->
        [pos \in EdgePositions, facelet \in EdgeFacelets |->
            IF ~edge_at(c, pos).oriented_rl THEN BitOr(BadFace, BadPiece) ELSE Visibility_Any],
     corner_visibility |->
        [pos \in CornerPositions, facelet \in CornerFacelets |->
            Visibility_Any],
     solve |->
        solve_step(step_config("EO", "lr", NissUnset), TRUE)]

\* impl Solvable for DRUD, DRFB, DRRL
DRUD(c) ==
    [is_solved |->
        /\ count_bad_edges_fb(c) = 0
        /\ count_bad_edges_lr(c) = 0
        /\ DRUDEOFBCoord_is_zero(c),
     is_eligible |->
        EORL(c).is_solved \/ EOFB(c).is_solved,
     case_name |->
        ToString(Cardinality({p \in CornerPositions : corner_at(c, p).orientation # 0}))
            \o "c" \o ToString(count_bad_edges_lr(c) + count_bad_edges_fb(c)) \o "e",
     edge_visibility |->
        [pos \in EdgePositions, facelet \in EdgeFacelets |->
            LET e == edge_at(c, pos) IN
            IF ~e.oriented_fb \/ ~e.oriented_rl
            THEN LET v == BitOr(Visibility_Any, BadPiece) IN
                 CASE pos \in {4, 5, 6, 7} /\ e.oriented_fb
                          /\ Some(facelet) = EDGE_FB_FACELETS[pos + 1] -> BitOr(v, BadFace)
                   [] pos \in {4, 5, 6, 7} /\ e.oriented_rl
                          /\ Some(facelet) = EDGE_RL_FACELETS[pos + 1] -> BitOr(v, BadFace)
                   [] Some(facelet) = EDGE_UD_FACELETS[pos + 1] -> BitOr(v, BadFace)
                   [] OTHER -> v
            ELSE Visibility_Any],
     corner_visibility |->
        [pos \in CornerPositions, facelet \in CornerFacelets |->
            LET k == corner_at(c, pos) IN
            IF ~oriented_ud(k, pos)
            THEN IF facelet = facelet_showing_ud(k)
                 THEN BitOr(BitOr(Visibility_Any, BadPiece), BadFace)
                 ELSE BitOr(Visibility_Any, BadPiece)
            ELSE Visibility_Any],
     solve |->
        solve_step(step_config("DR", "ud", "Never"), TRUE)]

\* a DRFB whose eligibility asks for the orientation along its own axis
DRFB_eligible_on_own_axis(c) ==
    [is_solved |->
        DRUD(transform(c, "X")).is_solved,
     is_eligible |->
        EOFB(c).is_solved,
     case_name |->
        DRUD(transform(c, "X")).case_name,
     edge_visibility |->
        [pos \in EdgePositions, facelet \in EdgeFacelets |->
            LET e == edge_at(c, pos) IN
            IF ~e.oriented_ud \/ ~e.oriented_rl
            THEN LET v == BitOr(Visibility_Any, BadPiece) IN
                 CASE pos \in {1, 3, 9, 11} /\ e.oriented_ud
                          /\ Some(facelet) = EDGE_UD_FACELETS[pos + 1] -> BitOr(v, BadFace)
                   [] pos \in {1, 3, 9, 11} /\ e.oriented_rl
                          /\ Some(facelet) = EDGE_RL_FACELETS[pos + 1] -> BitOr(v, BadFace)
                   [] Some(facelet) = EDGE_FB_FACELETS[pos + 1] -> BitOr(v, BadFace)
                   [] OTHER -> v
            ELSE Visibility_Any],
     corner_visibility |->
        [pos \in CornerPositions, facelet \in CornerFacelets |->
            LET k == corner_at(c, pos) IN
            IF ~oriented_fb(k, pos)
            THEN IF facelet = facelet_showing_fb(k)
                 THEN BitOr(BitOr(Visibility_Any, BadPiece), BadFace)
                 ELSE BitOr(Visibility_Any, BadPiece)
            ELSE Visibility_Any],
     solve |->
        solve_step(step_config("DR", "fb", "Never"), TRUE)]

DRFB(c) ==
    [is_solved |->
        DRUD(transform(c, "X")).is_solved,
     is_eligible |->
        EORL(c).is_solved \/ EOUD(c).is_solved,
     case_name |->
        DRUD(transform(c, "X")).case_name,
     edge_visibility |->
        [pos \in EdgePositions, facelet \in EdgeFacelets |->
            LET e == edge_at(c, pos) IN
            IF ~e.oriented_ud \/ ~e.oriented_rl
            THEN LET v == BitOr(Visibility_Any, BadPiece) IN
                 CASE pos \in {1, 3, 9, 11} /\ e.oriented_ud
                          /\ Some(facelet) = EDGE_UD_FACELETS[pos + 1] -> BitOr(v, BadFace)
                   [] pos \in {1, 3, 9, 11} /\ e.oriented_rl
                          /\ Some(facelet) = EDGE_RL_FACELETS[pos + 1] -> BitOr(v, BadFace)
                   [] Some(facelet) = EDGE_FB_FACELETS[pos + 1] -> BitOr(v, BadFace)
                   [] OTHER -> v
            ELSE Visibility_Any],
     corner_visibility |->
        [pos \in CornerPositions, facelet \in CornerFacelets |->
            LET k == corner_at(c, pos) IN
            IF ~oriented_fb(k, pos)
            THEN IF facelet = facelet_showing_fb(k)
                 THEN BitOr(BitOr(Visibility_Any, BadPiece), BadFace)
                 ELSE BitOr(Visibility_Any, BadPiece)
            ELSE Visibility_Any],
     solve |->
        solve_step(step_config("DR", "fb", "Never"), TRUE)]

DRRL(c) ==
    [is_solved |->
        DRUD(transform(c, "Z")).is_solved,
     is_eligible |->
        EOUD(c).is_solved \/ EOFB(c).is_solved,
     case_name |->
        DRUD(transform(c, "Z")).case_name,
     edge_visibility |->
        [pos \in EdgePositions, facelet \in EdgeFacelets |->
            LET e == edge_at(c, pos) IN
            IF ~e.oriented_fb \/ ~e.oriented_ud
            THEN LET v == BitOr(Visibility_Any, BadPiece) IN
                 CASE pos \in {0, 2, 8, 10} /\ e.oriented_fb
                          /\ Some(facelet) = EDGE_FB_FACELETS[pos + 1] -> BitOr(v, BadFace)
                   [] pos \in {0, 2, 8, 10} /\ e.oriented_ud
                          /\ Some(facelet) = EDGE_UD_FACELETS[pos + 1] -> BitOr(v, BadFace)
                   [] Some(facelet) = EDGE_RL_FACELETS[pos + 1] -> BitOr(v, BadFace)
                   [] OTHER -> v
            ELSE Visibility_Any],
     corner_visibility |->
        [pos \in CornerPositions, facelet \in CornerFacelets |->
            LET k == corner_at(c, pos) IN
            IF ~oriented_rl(k, pos)
            THEN IF facelet = facelet_showing_rl(k)
                 THEN BitOr(BitOr(Visibility_Any, BadPiece), BadFace)
                 ELSE BitOr(Visibility_Any, BadPiece)
            ELSE Visibility_Any],
     solve |->
        solve_step(step_config("DR", "lr", "Never"), TRUE)]

\* impl Solvable for HTRUD, HTRFB, HTRRL
\* an HTRUD whose corner test has lost its negation
HTRUD_corner_test_unnegated(c) ==
    [is_solved |->
        LET s == get_dr_subset(c) IN IF s.some THEN s.qt_is_zero ELSE FALSE,
     is_eligible |->
        IF get_dr_subset(c).some THEN TRUE ELSE FALSE,
     case_name |->
        IF get_dr_subset(c).some THEN Subset_to_string(c) ELSE "",
     edge_visibility |->
        [pos \in EdgePositions, facelet \in EdgeFacelets |->
            LET e == edge_at(c, pos) IN
            IF ~e.oriented_ud
            THEN IF Some(facelet) # EDGE_UD_FACELETS[pos + 1]
                 THEN BitOr(BadPiece, BadFace)
                 ELSE BadPiece
            ELSE Visibility_Any],
     corner_visibility |->
        [pos \in CornerPositions, facelet \in CornerFacelets |->
            LET k == corner_at(c, pos)
                v == IF facelet = facelet_showing_ud(k)
                     THEN IF k.id \div 4 = 1
                          THEN BitOr(Visibility_Any, HtrD)
                          ELSE BitOr(Visibility_Any, TopColor)
                     ELSE Visibility_Any
            IN  IF oriented_fb(k, pos)
                THEN IF facelet # CORNER_UD_FACELETS[pos + 1]
                     THEN BitOr(BitOr(v, BadPiece), BadFace)
                     ELSE BitOr(v, BadPiece)
                ELSE v],
     solve |->
        solve_step_deduplicated(step_config("HTR", "", NissUnset), TRUE,
                                is_equivalent("Y"))]

HTRUD(c) ==
    [is_solved |->
        LET s == get_dr_subset(c) IN IF s.some THEN s.qt_is_zero ELSE FALSE,
     is_eligible |->
        IF get_dr_subset(c).some THEN TRUE ELSE FALSE,
     case_name |->
        IF get_dr_subset(c).some THEN Subset_to_string(c) ELSE "",
     edge_visibility |->
        [pos \in EdgePositions, facelet \in EdgeFacelets |->
            LET e == edge_at(c, pos) IN
            IF ~e.oriented_ud
            THEN IF Some(facelet) # EDGE_UD_FACELETS[pos + 1]
                 THEN BitOr(BadPiece, BadFace)
                 ELSE BadPiece
            ELSE Visibility_Any],
     corner_visibility |->
        [pos \in CornerPositions, facelet \in CornerFacelets |->
            LET k == corner_at(c, pos)
                v == IF facelet = facelet_showing_ud(k)
                     THEN IF k.id \div 4 = 1
                          THEN BitOr(Visibility_Any, HtrD)
                          ELSE BitOr(Visibility_Any, TopColor)
                     ELSE Visibility_Any
            IN  IF ~oriented_fb(k, pos)
                THEN IF facelet # CORNER_UD_FACELETS[pos + 1]
                     THEN BitOr(BitOr(v, BadPiece), BadFace)
                     ELSE BitOr(v, BadPiece)
                ELSE v],
     solve |->
        solve_step_deduplicated(step_config("HTR", "", NissUnset), TRUE,
                                is_equivalent("Y"))]

HTRFB(c) ==
    [is_solved |->
        LET s == get_dr_subset(c) IN IF s.some THEN s.qt_is_zero ELSE FALSE,
     is_eligible |->
        IF get_dr_subset(c).some THEN TRUE ELSE FALSE,
     case_name |->
        IF get_dr_subset(c).some THEN Subset_to_string(c) ELSE "",
     edge_visibility |->
        [pos \in EdgePositions, facelet \in EdgeFacelets |->
            LET e == edge_at(c, pos) IN
            IF ~e.oriented_fb
            THEN IF Some(facelet) # EDGE_FB_FACELETS[pos + 1]
                 THEN BitOr(BitOr(Visibility_Any, BadPiece), BadFace)
                 ELSE BitOr(Visibility_Any, BadPiece)
            ELSE Visibility_Any],
     corner_visibility |->
        [pos \in CornerPositions, facelet \in CornerFacelets |->
            LET k == corner_at(c, pos)
                v == IF facelet = facelet_showing_fb(k)
                     THEN IF k.id \in {0, 1, 6, 7}
                          THEN BitOr(Visibility_Any, HtrD)
                          ELSE BitOr(Visibility_Any, TopColor)
                     ELSE Visibility_Any
            IN  IF ~oriented_rl(k, pos)
                THEN IF facelet # CORNER_FB_FACELETS[pos + 1]
                     THEN BitOr(BitOr(v, BadPiece), BadFace)
                     ELSE BitOr(v, BadPiece)
                ELSE v],
     solve |->
        solve_step_deduplicated(step_config("HTR", "", NissUnset), TRUE,
                                is_equivalent("X"))]

\* an HTRRL that reads the descriptor of the cube turned onto its axis
HTRRL_turned(c) ==
    [HTRUD(c) EXCEPT !.is_solved = HTRUD(transform(c, "Z")).is_solved,
                     !.is_eligible = InDRUD(transform(c, "Z")),
                     !.case_name = HTRUD(transform(c, "Z")).case_name]

HTRRL(c) ==
    [is_solved |->
        HTRUD(c).is_solved,
     is_eligible |->
        HTRUD(c).is_eligible,
     case_name |->
        HTRUD(c).case_name,
     edge_visibility |->
        [pos \in EdgePositions, facelet \in EdgeFacelets |->
            LET e == edge_at(c, pos) IN
            IF ~e.oriented_rl
            THEN IF Some(facelet) # EDGE_RL_FACELETS[pos + 1]
                 THEN BitOr(BitOr(Visibility_Any, BadPiece), BadFace)
                 ELSE BitOr(Visibility_Any, BadPiece)
            ELSE Visibility_Any],
     corner_visibility |->
        [pos \in CornerPositions, facelet \in CornerFacelets |->
            LET k == corner_at(c, pos)
                v == IF facelet = facelet_showing_rl(k)
                     THEN IF k.id \in {1, 2, 5, 6}
                          THEN BitOr(Visibility_Any, HtrD)
                          ELSE BitOr(Visibility_Any, TopColor)
                     ELSE Visibility_Any
            IN  IF ~oriented_ud(k, pos)
                THEN IF facelet # CORNER_RL_FACELETS[pos + 1]
                     THEN BitOr(BitOr(v, BadPiece), BadFace)
                     ELSE BitOr(v, BadPiece)
                ELSE v],
     solve |->
        solve_step_deduplicated(step_config("HTR", "", NissUnset), TRUE,
                                is_equivalent("Z"))]

\* a count over the E-slice positions only
bad_edge_count_in_slice(c) ==
    Cardinality({pos \in 4..7 :
        /\ edge_at(c, pos).id # pos
        /\ edge_at(c, pos).id # EDGE_OPPOSITE_E_SLICE[pos + 1]})

\* FRUD::case_name, bad_edge_count: the filter over all twelve positions
bad_edge_count(c) ==
    Cardinality({pos \in EdgePositions :
        /\ pos # EDGE_OPPOSITE_E_SLICE[pos + 1]
        /\ edge_at(c, pos).id # pos
        /\ edge_at(c, pos).id # EDGE_OPPOSITE_E_SLICE[pos + 1]})

\* impl Solvable for FRUD, FRFB, FRRL
FRUD(c) ==
    [is_solved |->
        FRUDNoSliceCoord_is_zero(c),
     is_eligible |->
        HTRUD(c).is_solved,
     case_name |->
        FR_corner_case(c) \o " " \o ToString(bad_edge_count(c)) \o "e",
     edge_visibility |->
        [pos \in EdgePositions, facelet \in EdgeFacelets |->
            LET e == edge_at(c, pos) IN
            IF /\ pos # EDGE_OPPOSITE_E_SLICE[pos + 1]
               /\ e.id # pos
               /\ e.id # EDGE_OPPOSITE_E_SLICE[pos + 1]
            THEN IF Some(facelet) # EDGE_UD_FACELETS[pos + 1]
                 THEN BitOr(BitOr(Visibility_Any, BadPiece), BadFace)
                 ELSE BitOr(Visibility_Any, BadPiece)
            ELSE Visibility_Any],
     corner_visibility |->
        [pos \in CornerPositions, facelet \in CornerFacelets |->
            LET k == corner_at(c, pos)
                c_opp == corner_at(c, CORNER_OPPOSITE_E_SLICE[pos + 1])
            IN  IF k.id \in {2, 5} /\ c_opp.id # CORNER_OPPOSITE_E_SLICE[k.id + 1]
                THEN IF facelet # CORNER_UD_FACELETS[pos + 1]
                     THEN BitOr(BitOr(Visibility_Any, BadPiece), BadFace)
                     ELSE BitOr(Visibility_Any, BadPiece)
                ELSE Visibility_Any],
     solve |->
        solve_step(step_config("FRLS", "ud", NissUnset), FALSE)]

FRFB(c) ==
    [is_solved |->
        FRUD(transform(c, "X")).is_solved,
     is_eligible |->
        HTRFB(c).is_solved,
     case_name |->
        FRUD(transform(c, "X")).case_name,
     edge_visibility |->
        [pos \in EdgePositions, facelet \in EdgeFacelets |->
            LET e == edge_at(c, pos) IN
            IF /\ pos # EDGE_OPPOSITE_S_SLICE[pos + 1]
               /\ e.id # pos
               /\ e.id # EDGE_OPPOSITE_S_SLICE[pos + 1]
            THEN IF Some(facelet) # EDGE_FB_FACELETS[pos + 1]
                 THEN BitOr(BitOr(Visibility_Any, BadPiece), BadFace)
                 ELSE BitOr(Visibility_Any, BadPiece)
            ELSE Visibility_Any],
     corner_visibility |->
        [pos \in CornerPositions, facelet \in CornerFacelets |->
            LET k == corner_at(c, pos)
                c_opp == corner_at(c, CORNER_OPPOSITE_S_SLICE[pos + 1])
            IN  IF k.id \in {1, 2} /\ c_opp.id # CORNER_OPPOSITE_S_SLICE[k.id + 1]
                THEN IF facelet # CORNER_FB_FACELETS[pos + 1]
                     THEN BitOr(BitOr(Visibility_Any, BadPiece), BadFace)
                     ELSE BitOr(Visibility_Any, BadPiece)
                ELSE Visibility_Any],
     solve |->
        solve_step(step_config("FRLS", "fb", NissUnset), FALSE)]

FRRL(c) ==
    [is_solved |->
        FRUD(transform(c, "Z")).is_solved,
     is_eligible |->
        HTRRL(c).is_solved,
     case_name |->
        FRUD(transform(c, "Z")).case_name,
     edge_visibility |->
        [pos \in EdgePositions, facelet \in EdgeFacelets |->
            LET e == edge_at(c, pos) IN
            IF /\ pos # EDGE_OPPOSITE_M_SLICE[pos + 1]
               /\ e.id # pos
               /\ e.id # EDGE_OPPOSITE_M_SLICE[pos + 1]
            THEN IF Some(facelet) # EDGE_RL_FACELETS[pos + 1]
                 THEN BitOr(BitOr(Visibility_Any, BadPiece), BadFace)
                 ELSE BitOr(Visibility_Any, BadPiece)
            ELSE Visibility_Any],
     corner_visibility |->
        [pos \in CornerPositions, facelet \in CornerFacelets |->
            LET k == corner_at(c, pos)
                c_opp == corner_at(c, CORNER_OPPOSITE_M_SLICE[pos + 1])
            IN  IF k.id \in {2, 3} /\ c_opp.id # CORNER_OPPOSITE_M_SLICE[k.id + 1]
                THEN IF facelet # CORNER_RL_FACELETS[pos + 1]
                     THEN BitOr(BitOr(Visibility_Any, BadPiece), BadFace)
                     ELSE BitOr(Visibility_Any, BadPiece)
                ELSE Visibility_Any],
     solve |->
        solve_step(step_config("FRLS", "lr", NissUnset), FALSE)]

\* impl Solvable for SliceUD, SliceFB, SliceRL
SliceUD(c) ==
    [is_solved |->
        HTRLeaveSliceFinishCoord_is_zero(c),
     is_eligible |->
        HTRUD(c).is_solved,
     case_name |->
        ToString(Cardinality({i \in CornerPositions : corner_at(c, i).id # i})) \o "c"
            \o ToString(Cardinality({i \in (0..3) \cup (8..11) : edge_at(c, i).id # i}))
            \o "e",
     edge_visibility |->
        [pos \in EdgePositions, facelet \in EdgeFacelets |->
            IF pos \in {4, 5, 6, 7} THEN Visibility_Any ELSE BitOr(BadPiece, BadFace)],
     corner_visibility |->
        [pos \in CornerPositions, facelet \in CornerFacelets |->
            BitOr(BadPiece, BadFace)],
     solve |->
        solve_step(step_config("FINLS", "", NissUnset), FALSE)]

SliceFB(c) ==
    [is_solved |->
        SliceUD(transform(c, "X")).is_solved,
     is_eligible |->
        HTRFB(c).is_solved,
     case_name |->
        SliceUD(transform(c, "X")).case_name,
     edge_visibility |->
        [pos \in EdgePositions, facelet \in EdgeFacelets |->
            IF pos \in {1, 3, 9, 11} THEN Visibility_Any ELSE BitOr(BadPiece, BadFace)],
     corner_visibility |->
        [pos \in CornerPositions, facelet \in CornerFacelets |->
            BitOr(BadPiece, BadFace)],
     solve |->
        solve_step(step_config("FINLS", "", NissUnset), FALSE)]

SliceRL(c) ==
    [is_solved |->
        SliceUD(transform(c, "Z")).is_solved,
     is_eligible |->
        HTRRL(c).is_solved,
     case_name |->
        SliceUD(transform(c, "Z")).case_name,
     edge_visibility |->
        [pos \in EdgePositions, facelet \in EdgeFacelets |->
            IF pos \in {0, 2, 8, 10} THEN Visibility_Any ELSE BitOr(BadPiece, BadFace)],
     corner_visibility |->
        [pos \in CornerPositions, facelet \in CornerFacelets |->
            BitOr(BadPiece, BadFace)],
     solve |->
        solve_step(step_config("FINLS", "", NissUnset), FALSE)]

\* the finish stage open only after HTR and drawing every sticker as bad
Finish_as_after_htr(c) ==
    [is_solved |->
        HTRFinishCoord_is_zero(c),
     is_eligible |->
        HTRUD(c).is_solved,
     case_name |->
        (IF Cardinality({i \in CornerPositions : corner_at(c, i).id # i}) > 0
         THEN ToString(Cardinality({i \in CornerPositions : corner_at(c, i).id # i})) \o "c"
         ELSE "")
        \o (IF Cardinality({i \in EdgePositions : edge_at(c, i).id # i}) > 0
            THEN ToString(Cardinality({i \in EdgePositions : edge_at(c, i).id # i})) \o "e"
            ELSE ""),
     edge_visibility |->
        [pos \in EdgePositions, facelet \in EdgeFacelets |->
            BitOr(BadPiece, BadFace)],
     corner_visibility |->
        [pos \in CornerPositions, facelet \in CornerFacelets |->
            BitOr(BadPiece, BadFace)],
     solve |->
        solve_step([step_config("FIN", "", "Never") EXCEPT !.max = Some(20)], FALSE)]

\* impl Solvable for Finish
Finish(c) ==
    [is_solved |->
        HTRFinishCoord_is_zero(c),
     is_eligible |->
        TRUE,
     case_name |->
        (IF Cardinality({i \in CornerPositions : corner_at(c, i).id # i}) > 0
         THEN ToString(Cardinality({i \in CornerPositions : corner_at(c, i).id # i})) \o "c"
         ELSE "")
        \o (IF Cardinality({i \in EdgePositions : edge_at(c, i).id # i}) > 0
            THEN ToString(Cardinality({i \in EdgePositions : edge_at(c, i).id # i})) \o "e"
            ELSE ""),
     edge_visibility |->
        [pos \in EdgePositions, facelet \in EdgeFacelets |->
            IF edge_at(c, pos).id # pos
            THEN BitOr(Visibility_Any, BitOr(BadPiece, BadFace))
            ELSE Visibility_Any],
     corner_visibility |->
        [pos \in CornerPositions, facelet \in CornerFacelets |->
            IF corner_at(c, pos).id # pos
            THEN BitOr(Visibility_Any, BitOr(BadPiece, BadFace))
            ELSE Visibility_Any],
     solve |->
        solve_step([step_config("FIN", "", "Never") EXCEPT !.max = Some(20)], FALSE)]

\* impl Solvable for SCRAMBLED
\* a scrambled stage that calls only the solved cube solved
SCRAMBLED_solved_cube_only(c) ==
    [is_solved |->
        c = Cube333_default,
     is_eligible |->
        TRUE,
     case_name |->
        "",
     edge_visibility |->
        [pos \in EdgePositions, facelet \in EdgeFacelets |->
            Visibility_Any],
     corner_visibility |->
        [pos \in CornerPositions, facelet \in CornerFacelets |->
            Visibility_Any],
     solve |->
        Err("Direct solver is not implemented")]

SCRAMBLED(c) ==
    [is_solved |->
        TRUE,
     is_eligible |->
        TRUE,
     case_name |->
        "",
     edge_visibility |->
        [pos \in EdgePositions, facelet \in EdgeFacelets |->
            Visibility_Any],
     corner_visibility |->
        [pos \in CornerPositions, facelet \in CornerFacelets |->
            Visibility_Any],
     solve |->
        Err("Direct solver is not implemented")]

StepInfo(kind, variant) == [kind |-> kind, variant |-> variant]

Variants == {"ud", "fb", "rl"}

\* the rows of the stage table
Steps ==
    {StepInfo(k, v) : k \in {"eo", "dr", "htr", "fr", "slice"}, v \in Variants}
        \cup {StepInfo("finish", ""), StepInfo("", "")}

\* the kind and variant strings a StepInfo is made with
KindStrings == {"eo", "dr", "htr", "fr", "slice", "finish", "", "insertions"}
VariantStrings == {"ud", "fb", "rl", "lr", ""}
StepInfos == {StepInfo(k, v) : k \in KindStrings, v \in VariantStrings}

\* StepBuilder::from_kind, and the stage it builds asked about cube c
from_kind(step, c) ==
    CASE step.kind = "eo" ->
            CASE step.variant = "fb" -> EOFB(c)
              [] step.variant = "rl" -> EORL(c)
              [] step.variant = "ud" -> EOUD(c)
              [] OTHER -> Err("Unknown variant '" \o step.variant \o "' for eo")
      [] step.kind = "dr" ->
            CASE step.variant = "fb" -> DRFB(c)
              [] step.variant = "rl" -> DRRL(c)
              [] step.variant = "ud" -> DRUD(c)
              [] OTHER -> Err("Unknown variant '" \o step.variant \o "' for dr")
      [] step.kind = "htr" ->
            CASE step.variant = "fb" -> HTRFB(c)
              [] step.variant = "rl" -> HTRRL(c)
              [] step.variant = "ud" -> HTRUD(c)
              [] OTHER -> Err("Unknown variant '" \o step.variant \o "' for dr")
      [] step.kind = "fr" ->
            CASE step.variant = "ud" -> FRUD(c)
              [] step.variant = "fb" -> FRFB(c)
              [] step.variant = "rl" -> FRRL(c)
              [] OTHER -> Err("Unknown variant '" \o step.variant \o "' for dr")
      [] step.kind = "slice" ->
            CASE step.variant = "ud" -> SliceUD(c)
              [] step.variant = "fb" -> SliceFB(c)
              [] step.variant = "rl" -> SliceRL(c)
              [] OTHER -> Err("Unknown variant '" \o step.variant \o "' for dr")
      [] step.kind = "finish" -> Finish(c)
      [] step.kind = "" -> SCRAMBLED(c)
      [] OTHER -> Err("Unknown step '" \o step.kind \o "'")

\* self.step() failed
step_failed(step, c) == "err" \in DOMAIN from_kind(step, c)

\* .map_err(|e| PyValueError::new_err(e.to_string()))?
PyValueError(step, c) == Err(from_kind(step, c).err)

\* StepInfo::is_solved and StepInfo::is_eligible
is_solved(step, c) == from_kind(step, c).is_solved
is_eligible(step, c) == from_kind(step, c).is_eligible

\* StepInfo::case_name
case_name(step, c) == from_kind(step, c).case_name

\* both facelets of each of the twelve positions
edge_facelets(visibility) ==
    EdgeArray([pos \in EdgePositions |->
        <<visibility[pos, 0], visibility[pos, 1]>>])

\* StepInfo::edge_visibility
edge_visibility(step, c) == edge_facelets(from_kind(step, c).edge_visibility)

\* the three facelets of each of the eight positions
corner_facelets(visibility) ==
    CornerArray([pos \in CornerPositions |->
        <<visibility[pos, 0], visibility[pos, 1], visibility[pos, 2]>>])

\* StepInfo::corner_visibility
corner_visibility(step, c) == corner_facelets(from_kind(step, c).corner_visibility)

(***************************************************************************)
(* The editing of one Algorithm handle.                                    *)
(***************************************************************************)
NoOp == [op |-> "new", turn |-> T("U", "Half"), inverse |-> FALSE]

AlgIdle ==
    /\ alg = EmptyAlg
    /\ prev = EmptyAlg
    /\ last = NoOp

NoApply == [op |-> "new", alg |-> EmptyAlg]

CubeIdle ==
    /\ cube = Cube333_default
    /\ before = Cube333_default
    /\ applied = NoApply

NoQuery == [op |-> "none"]

NoSolve == [op |-> "idle"]

StageIdle ==
    /\ turns = 0
    /\ asked = NoQuery
    /\ solver = NoSolve

AlgInit == AlgIdle /\ CubeIdle /\ StageIdle

\* the appends followed: any to a short algorithm, and the first to an
\* algorithm as it was constructed
Appendable == len(alg) <= MaxAlgLen \/ last.op = "new"

\* alg = alg.append(turn, inverse)
AppendNormal ==
    \E turn \in Turns :
        /\ Appendable
        /\ alg' = Algorithm_append(alg, turn, FALSE)
        /\ prev' = alg
        /\ last' = [op |-> "append", turn |-> turn, inverse |-> FALSE]
        /\ UNCHANGED <<cubeVars, stageVars>>

AppendInverse ==
    \E turn \in Turns :
        /\ Appendable
        /\ alg' = Algorithm_append(alg, turn, TRUE)
        /\ prev' = alg
        /\ last' = [op |-> "append", turn |-> turn, inverse |-> TRUE]
        /\ UNCHANGED <<cubeVars, stageVars>>

\* alg = alg.merge(other)
Merge ==
    \E other \in MergeOperands :
        /\ len(alg) <= MaxAlgLen
        /\ alg' = merge(alg, other)
        /\ prev' = alg
        /\ last' = [op |-> "merge", turn |-> NoOp.turn, inverse |-> FALSE]
        /\ UNCHANGED <<cubeVars, stageVars>>

AlgNext == AppendNormal \/ AppendInverse \/ Merge

SpecAlg == AlgInit /\ [][AlgNext]_vars

(***************************************************************************)
(* One Cube handle: built from a scramble, possibly inverted, then an      *)
(* algorithm and its inverse applied.                                      *)
(***************************************************************************)
\* the move sequences of exactly n moves
RECURSIVE MoveSeqs(_)
MoveSeqs(n) ==
    IF n = 0 THEN {<<>>}
    ELSE {Append(s, t) : s \in MoveSeqs(n - 1), t \in Turns}

\* the algorithms of at most n moves, both sides together
Algorithms(n) ==
    UNION {{Alg(a, b) : a \in MoveSeqs(i), b \in MoveSeqs(j)} :
              <<i, j>> \in {p \in (0..n) \X (0..n) : p[1] + p[2] <= n}}

\* the algorithms applied to a cube
ApplyAlgorithms == Algorithms(MaxApplyLen)

CubeInit ==
    /\ AlgIdle
    /\ StageIdle
    /\ \E s \in Scrambles : cube = Cube_new(s)
    /\ before = cube
    /\ applied = NoApply

\* cube.invert()
CubeInvert ==
    /\ applied.op = "new"
    /\ cube' = Cube_invert(cube)
    /\ before' = cube'
    /\ UNCHANGED <<applied, algVars, stageVars>>

\* cube.apply(a)
CubeApply ==
    /\ applied.op = "new"
    /\ \E a \in ApplyAlgorithms :
        /\ cube' = Cube_apply(cube, a)
        /\ before' = cube
        /\ applied' = [op |-> "apply", alg |-> a]
        /\ UNCHANGED <<algVars, stageVars>>

\* cube.apply(a.inverted()) after cube.apply(a)
CubeApplyInverted ==
    /\ applied.op = "apply"
    /\ cube' = Cube_apply(cube, inverted(applied.alg))
    /\ applied' = [op |-> "undo", alg |-> applied.alg]
    /\ UNCHANGED <<before, algVars, stageVars>>

CubeNext == CubeInvert \/ CubeApply \/ CubeApplyInverted

SpecCube == CubeInit /\ [][CubeNext]_vars


(***************************************************************************)
(* Properties of append.                                                   *)
(***************************************************************************)
side_of(a, inverse) == IF inverse THEN a.inverse_moves ELSE a.normal_moves
other_side_of(a, inverse) == IF inverse THEN a.normal_moves ELSE a.inverse_moves


\* the algorithm obtained by appending the inverse of the last appended move
\* to the same side
Undone == Algorithm_append(alg, invert(last.turn), last.inverse)

\* b is a with the last two moves of the chosen side, which are on opposite
\* faces, exchanged
SwappedTail(a, b, inverse) ==
    LET s == side_of(a, inverse)
        n == Len(s)
    IN  /\ other_side_of(b, inverse) = other_side_of(a, inverse)
        /\ n >= 2
        /\ s[n - 1].face = opposite(s[n].face)
        /\ side_of(b, inverse) = [s EXCEPT ![n - 1] = s[n], ![n] = s[n - 1]]

\* C1 as stated: for every algorithm reached by appends, appending M and then
\* the inverse of M to the same side gives back the same two move sequences.
C1_AppendInverseRestores ==
    last.op = "append" => Undone = prev

\* C1 as amended: appending M and then the inverse of M to the same side gives
\* back the same algorithm, except that when M cancelled the move before the
\* side's last move (on the opposite face), the two last moves of that side,
\* which commute, come back in exchanged order; the other side is unchanged.
C1_AppendInverseRestoresUpToCommutation ==
    last.op = "append" =>
        \/ Undone = prev
        \/ /\ SwappedTail(prev, Undone, last.inverse)
           /\ len(alg) = len(prev) - 1
           /\ side_of(prev, last.inverse)[Len(side_of(prev, last.inverse)) - 1]
                  = invert(last.turn)

\* an append cancelled a move across an opposite-face move, and undoing it
\* exchanges the two last moves
C1_Witness ==
    /\ last.op = "append"
    /\ Undone # prev
    /\ SwappedTail(prev, Undone, last.inverse)

\* two moves of one face with nothing but opposite-face moves between them
Unreduced(s) ==
    \E i, j \in 1..Len(s) :
        /\ i < j
        /\ s[i].face = s[j].face
        /\ \A k \in (i + 1)..(j - 1) : s[k].face = opposite(s[i].face)

\* C2: after any sequence of appends from the empty algorithm, neither side
\* holds two moves of the same face that are adjacent or separated only by
\* moves of the opposite face.
C2_Reduced ==
    /\ ~Unreduced(alg.normal_moves)
    /\ ~Unreduced(alg.inverse_moves)

\* an append combined its move with one lying before an opposite-face move
C2_Witness ==
    /\ last.op = "append"
    /\ LET s == side_of(prev, last.inverse) IN
        /\ Len(s) >= 2
        /\ s[Len(s)].face = opposite(last.turn.face)
        /\ s[Len(s) - 1].face = last.turn.face
    /\ Len(side_of(alg, last.inverse)) = 2

\* the index of the move the scan finds for `turn`: the last move of turn's
\* face with only opposite-face moves after it; 0 when there is none
Found(s, turn) ==
    LET cand == {i \in 1..Len(s) :
                    /\ s[i].face = turn.face
                    /\ \A k \in (i + 1)..Len(s) : s[k].face = opposite(turn.face)}
    IN  IF cand = {} THEN 0 ELSE CHOOSE i \in cand : \A j \in cand : j <= i

F_(d) == T("F", d)
B2 == T("B", "Half")

\* C3: when append finds a move L on the appended move M's face, L is
\* replaced at its index by the turn of (q(L)+q(M)) mod 4 quarter turns,
\* deleted when that is 0, and nothing is pushed; F then F' gives the empty
\* algorithm and F, F, B2, F gives F' B2, on either side.
C3_CombineInPlace ==
    last.op = "append" =>
        LET s == side_of(prev, last.inverse)
            r == side_of(alg, last.inverse)
            i == Found(s, last.turn)
            n == IF i = 0 THEN 0 ELSE (q(s[i].dir) + q(last.turn.dir)) % 4
        IN  /\ (i > 0 /\ n = 0) => r = RemoveAt(s, i)
            /\ (i > 0 /\ n # 0) =>
                   r = [s EXCEPT ![i] = T(last.turn.face, dir_of(n))]
            /\ (s = <<F_("Clockwise")>> /\ last.turn = F_("CounterClockwise"))
                   => r = <<>>
            /\ (s = <<F_("Half"), B2>> /\ last.turn = F_("Clockwise"))
                   => r = <<F_("CounterClockwise"), B2>>

\* the fourth append of F, F, B2, F has been made on the inverse side
C3_Witness ==
    /\ last = [op |-> "append", turn |-> F_("Clockwise"), inverse |-> TRUE]
    /\ prev = Alg(<<>>, <<F_("Half"), B2>>)
    /\ alg = Alg(<<>>, <<F_("CounterClockwise"), B2>>)

(***************************************************************************)
(* StepInfo queries on a cube: the cube is built from a scramble, moves    *)
(* are made on it, and a StepInfo is asked about it.                       *)
(***************************************************************************)
\* a scramble of half turns
HalfTurns(faces) == Alg([i \in 1..Len(faces) |-> HalfTurn(faces[i])], <<>>)

\* the scrambles of the cubes a StepInfo is asked about
StageScrambles ==
    Scrambles \cup
    {HalfTurns(<<"R", "F">>),
     HalfTurns(<<"U", "R">>),
     HalfTurns(<<"F", "B", "U", "F", "B", "D", "F">>),
     HalfTurns(<<"R", "L", "U", "R", "L", "D", "R">>),
     Alg(<<M("U", 1), M("R", 2), M("D", 3)>>, <<>>),
     Alg(<<M("R", 1), M("U", 2), M("F", 2), M("U", 2), M("R", 1)>>, <<>>),
     Alg(<<M("R", 1), M("U", 1), M("R", 3), M("U", 3)>>, <<M("F", 1)>>)}

StageInit ==
    /\ AlgIdle
    /\ \E s \in StageScrambles : cube = Cube_new(s)
    /\ before = cube
    /\ applied = NoApply
    /\ StageIdle

\* cube.apply(Algorithm(t)) for one move t
StageTurn ==
    /\ turns < MaxStageTurns
    /\ \E t \in Turns :
        /\ cube' = Cube_apply(cube, Alg(<<t>>, <<>>))
        /\ before' = cube'
    /\ turns' = turns + 1
    /\ asked' = NoQuery
    /\ UNCHANGED <<applied, algVars, solver>>

\* the answers of the methods of StepInfo(kind, variant), given what
\* self.step() returned: its error from every one of them, or else each
\* method's answer
StepInfo_answers(step, stage) ==
    IF "err" \in DOMAIN stage
    THEN [op |-> "error", step |-> step,
          is_solved |-> Err(stage.err),
          is_eligible |-> Err(stage.err),
          case_name |-> Err(stage.err),
          edge_visibility |-> Err(stage.err),
          corner_visibility |-> Err(stage.err),
          solve |-> Err(stage.err)]
    ELSE [op |-> "query", step |-> step,
          is_solved |-> stage.is_solved,
          is_eligible |-> stage.is_eligible,
          case_name |-> stage.case_name,
          edge_visibility |-> edge_facelets(stage.edge_visibility),
          corner_visibility |-> corner_facelets(stage.corner_visibility),
          solve |-> stage.solve]

\* what the methods of StepInfo(kind, variant) return about cube c
StepInfo_query(step, c) == StepInfo_answers(step, from_kind(step, c))

\* One StepInfo(kind, variant) asked about the cube: is_solved, is_eligible,
\* edge_visibility and corner_visibility.  The methods take &self and &Cube
\* and change neither, so asked keeps the answers of one query per cube.
StageQuery ==
    /\ asked.op = "none"
    /\ \E step \in StepInfos :
        /\ asked' = StepInfo_query(step, cube)
        /\ UNCHANGED <<turns, cubeVars, algVars, solver>>

StageNext == StageTurn \/ StageQuery

SpecStage == StageInit /\ [][StageNext]_vars

\* C4: for every cube C and algorithm A (moves on either side), applying A
\* and then A.inverted() to C gives a cube equal to C in every piece's
\* position, id and orientation.
C4_ApplyInvertedRestores ==
    applied.op = "undo" => cube = before

\* a two-sided algorithm and then its inverse have been applied to a cube that
\* the algorithm changes
C4_Witness ==
    /\ applied.op = "undo"
    /\ applied.alg.inverse_moves # <<>>
    /\ applied.alg.normal_moves # <<>>
    /\ before # Cube333_default
    /\ Cube_apply(before, applied.alg) # before
    /\ cube = before

\* C5: for every stage S (eo, dr, htr, fr, slice on ud, fb, rl; finish;
\* scrambled) and every cube C, S.is_solved(C) implies S.is_eligible(C).
C5_SolvedImpliesEligible ==
    asked.op = "query" => (asked.is_solved => asked.is_eligible)

\* DR on FB was asked about a cube it calls solved whose edges are not all
\* oriented along FB
C5_Witness ==
    /\ asked.op = "query"
    /\ asked.step = StepInfo("dr", "fb")
    /\ asked.is_solved
    /\ asked.is_eligible
    /\ ~EOFB(cube).is_solved

\* An edge is oriented on all three axes; a corner is untwisted and reads as
\* oriented on all three axes at its position.  A piece oriented correctly
\* for a stage under any reading of the stage's axes satisfies the stage's
\* test when it satisfies this one.
EdgeOriented(c, pos) ==
    LET e == edge_at(c, pos) IN e.oriented_ud /\ e.oriented_fb /\ e.oriented_rl

CornerOriented(c, pos) ==
    LET k == corner_at(c, pos)
    IN  oriented_ud(k, pos) /\ oriented_fb(k, pos) /\ oriented_rl(k, pos)

BadPieceClear(flags) == \A i \in DOMAIN flags : ~HasBit(flags[i], BadPiece)

OrientedPiecesClear ==
    /\ \A pos \in EdgePositions :
           EdgeOriented(cube, pos) => BadPieceClear(asked.edge_visibility[pos + 1])
    /\ \A pos \in CornerPositions :
           CornerOriented(cube, pos) => BadPieceClear(asked.corner_visibility[pos + 1])

OrientationStages == {"eo", "dr", "htr", ""}

MaxSolveLen == 1
\* largest count a solve call is made with
MaxCount == 3

FaceOrder == <<"U", "D", "F", "B", "R", "L">>
MoveAt(n) == T(FaceOrder[(n \div 3) + 1], dir_of((n % 3) + 1))

\* the sequences of depth d: d moves, the first k of them on the normal side
\* and the others on the inverse side, for k from 0 to d
LevelSize(d) == (d + 1) * (18 ^ d)

RECURSIVE LevelStart(_)
LevelStart(d) == IF d = 0 THEN 0 ELSE LevelStart(d - 1) + LevelSize(d - 1)

EnumSize == LevelStart(MaxSolveLen + 1)

LevelOf(i) == CHOOSE d \in 0..MaxSolveLen : LevelStart(d) <= i /\ i < LevelStart(d + 1)

\* the i-th move sequence the deepening visits
Candidate(i) ==
    LET d == LevelOf(i)
        j == i - LevelStart(d)
        k == j % (d + 1)
        digits == j \div (d + 1)
        moves == [n \in 1..d |-> MoveAt((digits \div (18 ^ (n - 1))) % 18)]
    IN  Alg(SubSeq(moves, 1, k), SubSeq(moves, k + 1, d))

\* the axes a step configuration names: every axis when it names none
ConfigAxes(cfg) ==
    IF cfg.substeps = None THEN {"ud", "fb", "lr"}
    ELSE {v[1] : v \in cfg.substeps}

\* the cube turned so that the axis lies where UD lay
OnAxis(c, axis) ==
    CASE axis = "ud" -> c
      [] axis = "fb" -> transform(c, "X")
      [] axis = "lr" -> transform(c, "Z")

EdgesOrientedOn(c, axis) ==
    CASE axis = "ud" -> count_bad_edges_ud(c) = 0
      [] axis = "fb" -> count_bad_edges_fb(c) = 0
      [] axis = "lr" -> count_bad_edges_lr(c) = 0

\* the coordinate of the step is zero on one of the configured axes
Target(cfg, c) ==
    \E axis \in ConfigAxes(cfg) :
        CASE cfg.kind = "EO" -> EdgesOrientedOn(c, axis)
          [] cfg.kind = "DR" -> InDRUD(OnAxis(c, axis))
          [] cfg.kind = "HTR" -> InHTR(c)
          [] cfg.kind = "FRLS" -> FRUDNoSliceCoord_is_zero(OnAxis(c, axis))
          [] cfg.kind = "FINLS" -> HTRLeaveSliceFinishCoord_is_zero(OnAxis(c, axis))
          [] cfg.kind = "FIN" -> HTRFinishCoord_is_zero(c)

\* the stages before the step hold of the cube as it is (max = 0)
Prerequisite(cfg, c) ==
    CASE cfg.kind = "EO" -> TRUE
      [] cfg.kind = "DR" ->
            \E axis \in ConfigAxes(cfg) :
                \E other \in {"ud", "fb", "lr"} \ {axis} : EdgesOrientedOn(c, other)
      [] cfg.kind = "HTR" ->
            \E axis \in ConfigAxes(cfg) : InDRUD(OnAxis(c, axis))
      [] cfg.kind \in {"FRLS", "FINLS", "FIN"} -> InHTR(c)

\* the moves of the step: half turns once the cube is in the half-turn group
AllowedMove(cfg, t) ==
    cfg.kind \in {"FRLS", "FINLS", "FIN"} => t.dir = "Half"

\* NissSwitchType::Never keeps the search off the inverse side
AllowedSides(cfg, a) ==
    cfg.niss = Some("Never") => a.inverse_moves = <<>>

\* the search yields sequence a as a solution for cube c
Yields(cfg, c, a) ==
    /\ \A n \in 1..Len(a.normal_moves) : AllowedMove(cfg, a.normal_moves[n])
    /\ \A n \in 1..Len(a.inverse_moves) : AllowedMove(cfg, a.inverse_moves[n])
    /\ AllowedSides(cfg, a)
    /\ Target(cfg, apply_alg(c, a))

(***************************************************************************)
(* Case identities and the predicates of solve_step_impl.                  *)
(***************************************************************************)
\* FRUDNoSliceCoord::from(cube).val(): zero on the target, and otherwise a
\* value that tells apart what lies outside the E slice
FRUDNoSliceCoord_val(c) ==
    IF FRUDNoSliceCoord_is_zero(c) THEN <<0>>
    ELSE <<1>> \o [n \in 1..8 |-> edge_at(c, IF n <= 4 THEN n - 1 ELSE n + 3).id]
              \o [n \in 1..8 |-> corner_at(c, n - 1).id]
              \o [n \in 1..8 |-> corner_at(c, n - 1).orientation]

\* the order of usize on the values
RECURSIVE coord_le(_, _)
coord_le(a, b) ==
    IF a = <<>> THEN TRUE
    ELSE IF b = <<>> THEN FALSE
    ELSE IF Head(a) # Head(b) THEN Head(a) < Head(b)
    ELSE coord_le(Tail(a), Tail(b))

\* std::cmp::min
cmp_min(a, b) == IF coord_le(a, b) THEN a ELSE b

\* raw: the bit pattern of the cube it is given with alg applied to it
cube_bits(c) == <<c.edges, c.corners>>
raw(c, a) == cube_bits(apply_alg(c, a))

\* the coordinate of the cube alone, without the minimum
is_equivalent_coord_single(transformed) == FRUDNoSliceCoord_val(transformed)

\* the closure is_equivalent(transform) returns
is_equivalent_coord(transformed) ==
    cmp_min(FRUDNoSliceCoord_val(transformed),
            FRUDNoSliceCoord_val(
                apply_alg(transformed, Alg(<<HalfTurn("U"), HalfTurn("D")>>, <<>>))))

is_equivalent_closure(t, c, a) == is_equivalent_coord(transform(c, t))

\* self.1(&c, &alg)
call_case_id(f, c, a) ==
    IF f.fn = "raw" THEN raw(c, a) ELSE is_equivalent_closure(f.transform, c, a)

\* the filters' state when a solve call starts
NewPredicateState == [passed |-> 0, seen |-> {}]

\* FilterLastMoveNotPrime::check_solution
FilterLastMoveNotPrime_side(moves) ==
    LET n == Len(moves) IN
    \/ n = 0
    \/ /\ moves[n].dir # "CounterClockwise"
       /\ ~ (/\ n >= 2
             /\ moves[n - 1].dir = "CounterClockwise"
             /\ moves[n].dir = "CounterClockwise"
             /\ moves[n - 1].face = opposite(moves[n].face))

FilterLastMoveNotPrime_check_solution(st, a) ==
    [accepted |-> /\ FilterLastMoveNotPrime_side(a.normal_moves)
                  /\ FilterLastMoveNotPrime_side(a.inverse_moves),
     st |-> st]

\* FilterFirstN::check_solution
FilterFirstN_check_solution(st, n) ==
    IF st.passed < n
    THEN [accepted |-> TRUE, st |-> [st EXCEPT !.passed = st.passed + 1]]
    ELSE [accepted |-> FALSE, st |-> st]

\* c.apply_alg(&alg) and self.1(&c, &alg)
solution_case_id(start, case_id, a) ==
    call_case_id(case_id, apply_alg(start, a), a)

\* a FilterDupCaseID that accepts whatever it is shown
FilterDupCaseID_accept_all(st, start, case_id, a) ==
    [accepted |-> TRUE,
     st |-> [st EXCEPT !.seen = st.seen \cup {solution_case_id(start, case_id, a)}]]

\* self.2.borrow_mut().insert(case_id): true when the id is new to the set
HashSet_insert(st, id) ==
    IF id \notin st.seen
    THEN [accepted |-> TRUE, st |-> [st EXCEPT !.seen = st.seen \cup {id}]]
    ELSE [accepted |-> FALSE, st |-> st]

\* FilterDupCaseID::check_solution
FilterDupCaseID_check_solution(st, start, case_id, a) ==
    HashSet_insert(st, solution_case_id(start, case_id, a))

check_solution(pred, st, start, a) ==
    CASE pred.name = "FilterLastMoveNotPrime" ->
            FilterLastMoveNotPrime_check_solution(st, a)
      [] pred.name = "FilterFirstN" ->
            FilterFirstN_check_solution(st, pred.n)
      [] pred.name = "FilterDupCaseID" ->
            FilterDupCaseID_check_solution(st, start, pred.case_id, a)

\* the predicates are asked in order until one rejects
RECURSIVE check_predicates(_, _, _, _)
check_rest(r, rest, start, a) ==
    IF r.accepted THEN check_predicates(rest, r.st, start, a) ELSE r

check_predicates(preds, st, start, a) ==
    IF preds = <<>> THEN [accepted |-> TRUE, st |-> st]
    ELSE check_rest(check_solution(Head(preds), st, start, a), Tail(preds), start, a)

(***************************************************************************)
(* One solve call: step.solve(cube, count).                                *)
(***************************************************************************)
\* the cubes solve is called on
SolveScrambles ==
    StageScrambles \cup {Alg(<<M("U", 2), M("R", 2), M("F", 1)>>, <<>>)}

\* a collection that puts the newest solution first
collect_newest_first(out, a) == <<a>> \o out

\* .take(count).map(..).collect(): the accepted solutions in the order they come
collect(out, a) == Append(out, a)

\* a take that lets one solution more through
Finished_one_late(out, count, next) == Len(out) = count + 1 \/ next = EnumSize

\* .take(count): the search is over when count solutions are taken or the
\* deepening has been followed to its last sequence
Finished(out, count, next) == Len(out) = count \/ next = EnumSize

\* StepInfo::solve as the call starts: the stage's configuration, the search
\* at its first sequence and nothing collected
solve(step, c, count) ==
    IF step_failed(step, c)
    THEN [op |-> "error", step |-> step, count |-> count,
          err |-> from_kind(step, c).err]
    ELSE
    LET call == from_kind(step, c).solve IN
    IF "err" \in DOMAIN call
    THEN [op |-> "error", step |-> step, count |-> count, err |-> call.err]
    ELSE IF "err" \in DOMAIN call.step_config
    THEN [op |-> "error", step |-> step, count |-> count,
          err |-> call.step_config.err]
    ELSE [op |-> "solve", step |-> step, count |-> count, call |-> call,
          next |-> 0, produced |-> 0, st |-> NewPredicateState, out |-> <<>>,
          done |-> ~Prerequisite(call.cfg, c) \/ Finished(<<>>, count, 0)]

SolveInit ==
    /\ AlgIdle
    /\ \E s \in SolveScrambles : cube = Cube_new(s)
    /\ before = cube
    /\ applied = NoApply
    /\ turns = 0
    /\ asked = NoQuery
    /\ \E step \in Steps, count \in 0..MaxCount : solver = solve(step, cube, count)

Ok(x) == [ok |-> x]

\* a solve that reports an error when it has nothing to return
solve_result_empty_is_error(sv) ==
    IF sv.op = "error" THEN Err(sv.err)
    ELSE IF sv.out = <<>> THEN Err("No solutions found")
    ELSE Ok(sv.out)

\* what StepInfo::solve returns: the stage's error, or Ok of what was collected
solve_result(sv) ==
    IF sv.op = "error" THEN Err(sv.err) ELSE Ok(sv.out)

\* the search passes over a sequence that is no solution
SearchAdvance ==
    /\ solver.op = "solve"
    /\ ~solver.done
    /\ ~Yields(solver.call.cfg, cube, Candidate(solver.next))
    /\ solver' = [solver EXCEPT
                    !.next = solver.next + 1,
                    !.done = Finished(solver.out, solver.count, solver.next + 1)]
    /\ UNCHANGED <<algVars, cubeVars, turns, asked>>

\* the call once the predicates have answered r about solution a
taken(sv, r, a) ==
    [sv EXCEPT
        !.next = sv.next + 1,
        !.produced = sv.produced + 1,
        !.st = r.st,
        !.out = IF r.accepted THEN collect(sv.out, a) ELSE sv.out,
        !.done = Finished(IF r.accepted THEN collect(sv.out, a) ELSE sv.out,
                          sv.count, sv.next + 1)]

\* the search reaches a solution: the predicates are asked, and an accepted
\* solution is collected
SearchSolution ==
    /\ solver.op = "solve"
    /\ ~solver.done
    /\ Yields(solver.call.cfg, cube, Candidate(solver.next))
    /\ solver' = taken(solver,
                       check_predicates(solver.call.predicates, solver.st, cube,
                                        Candidate(solver.next)),
                       Candidate(solver.next))
    /\ UNCHANGED <<algVars, cubeVars, turns, asked>>

SolveNext == SearchAdvance \/ SearchSolution

SpecSolve == SolveInit /\ [][SolveNext]_vars

\* the cube a returned algorithm leaves
Solved(a) == apply_alg(cube, a)

\* C6: for every stage, cube and algorithm returned by solve, the stage's
\* is_solved holds of the cube with the algorithm applied.
C6_ReturnedAlgorithmsSolve ==
    solver.op = "solve" =>
        \A n \in 1..Len(solver.out) : is_solved(solver.step, Solved(solver.out[n]))

\* the case identity the stage's case_id function gives a returned algorithm
CaseIdFn == solver.call.predicates[Len(solver.call.predicates)].case_id
CaseIdOf(a) == solution_case_id(cube, CaseIdFn, a)

\* C7: within the list one solve call returns, no two algorithms have the
\* same case identity.
C7_DistinctCaseIds ==
    solver.op = "solve" =>
        \A m, n \in 1..Len(solver.out) :
            m < n => CaseIdOf(solver.out[m]) # CaseIdOf(solver.out[n])

\* three algorithms are returned, and a solution that passed the first-N
\* filter was rejected as a duplicate
C7_Witness ==
    /\ solver.op = "solve"
    /\ solver.done
    /\ Len(solver.out) = 3
    /\ solver.st.passed > Len(solver.out)

\* C8: the algorithms one solve call returns are in non-decreasing length
\* order.
C8_NonDecreasingLength ==
    solver.op = "solve" =>
        \A m, n \in 1..Len(solver.out) :
            m < n => len(solver.out[m]) <= len(solver.out[n])

\* an eo solve that returned the empty algorithm and then longer ones, with
\* solutions rejected in between
C8_Witness ==
    /\ solver.op = "solve"
    /\ solver.step.kind = "eo"
    /\ Len(solver.out) = 3
    /\ len(solver.out[1]) < len(solver.out[3])
    /\ solver.next > solver.st.passed

LastIsCounterClockwise(moves) ==
    moves # <<>> /\ moves[Len(moves)].dir = "CounterClockwise"

\* C9: the eo, dr and htr solves return no algorithm whose normal side or
\* inverse side ends with a counter-clockwise quarter turn.
C9_NoCounterClockwiseEnd ==
    (solver.op = "solve" /\ solver.step.kind \in {"eo", "dr", "htr"}) =>
        \A n \in 1..Len(solver.out) :
            /\ ~LastIsCounterClockwise(solver.out[n].normal_moves)
            /\ ~LastIsCounterClockwise(solver.out[n].inverse_moves)

\* an htr solve that returned fewer algorithms than asked for after it passed
\* over a solution that ends counter-clockwise and whose case identity is
\* that of no returned algorithm
C9_Witness ==
    /\ solver.op = "solve"
    /\ solver.step.kind = "htr"
    /\ solver.done
    /\ solver.out # <<>>
    /\ Len(solver.out) < solver.count
    /\ \E i \in 0..(solver.next - 1) :
          /\ \/ LastIsCounterClockwise(Candidate(i).normal_moves)
             \/ LastIsCounterClockwise(Candidate(i).inverse_moves)
          /\ Yields(solver.call.cfg, cube, Candidate(i))
          /\ \A n \in 1..Len(solver.out) :
                CaseIdOf(Candidate(i)) # CaseIdOf(solver.out[n])

\* C11: a solve call returns at most count algorithms, and with count = 0
\* it returns the empty list without searching.
C11_AtMostCount ==
    solver.op = "solve" =>
        /\ Len(solver.out) <= solver.count
        /\ solver.count = 0 => (solver.done /\ solver.out = <<>> /\ solver.next = 0)

\* a call that took its count of two algorithms and stopped while the search
\* had further solutions to give
C11_Witness ==
    /\ solver.op = "solve"
    /\ solver.done
    /\ solver.count = 2
    /\ Len(solver.out) = 2
    /\ \E i \in solver.next..(EnumSize - 1) :
          /\ Yields(solver.call.cfg, cube, Candidate(i))
          /\ check_predicates(solver.call.predicates, solver.st, cube,
                              Candidate(i)).accepted

\* the call is over and the search gave no solution although one was asked for
NoSolutionProduced ==
    /\ solver.op = "solve"
    /\ solver.done
    /\ solver.count > 0
    /\ solver.produced = 0

\* C12 as stated: when the search produces no solution, solve reports an error
\* and no successful result.
C12_NoSolutionIsError ==
    NoSolutionProduced => "err" \in DOMAIN solve_result(solver)

\* C12: when the search produces no solution, solve returns successfully
\* with the empty list.
C12_NoSolutionIsEmptyList ==
    NoSolutionProduced => solve_result(solver) = Ok(<<>>)

\* a search that held its prerequisite and was followed to its last sequence
\* without a solution
C12_Witness ==
    /\ NoSolutionProduced
    /\ Prerequisite(solver.call.cfg, cube)
    /\ solver.next = EnumSize
    /\ solve_result(solver) = Ok(<<>>)

\* every one of the six StepInfo methods returned an error
AllSixFail ==
    /\ asked.op = "error"
    /\ \A f \in {"is_solved", "is_eligible", "case_name", "edge_visibility",
                  "corner_visibility", "solve"} : "err" \in DOMAIN asked[f]

\* each of the five classifier methods returned its answer
NoneOfFiveFails ==
    /\ asked.op = "query"
    /\ asked.is_solved \in BOOLEAN
    /\ asked.is_eligible \in BOOLEAN
    /\ Len(asked.case_name) >= 0
    /\ Len(asked.edge_visibility) = 12
    /\ Len(asked.corner_visibility) = 8

\* C13: for a (kind, variant) pair that is no row of the stage table every
\* one of the six operations returns an error, and for a row of the table
\* none of the five classifier operations does.
C13_ErrorsExactlyOffTheTable ==
    asked.op \in {"query", "error"} =>
        /\ asked.step \notin Steps => AllSixFail
        /\ asked.step \in Steps => NoneOfFiveFails

\* C14: the scrambled stage calls every cube solved and eligible, gives
\* exactly ANY to every edge and corner facelet, and its solve returns an
\* error and no algorithm.
C14_ScrambledIsNeutral ==
    (asked.op = "query" /\ asked.step.kind = "") =>
        /\ asked.is_solved
        /\ asked.is_eligible
        /\ \A pos \in EdgePositions :
              asked.edge_visibility[pos + 1] = <<Visibility_Any, Visibility_Any>>
        /\ \A pos \in CornerPositions :
              asked.corner_visibility[pos + 1]
                  = <<Visibility_Any, Visibility_Any, Visibility_Any>>
        /\ "err" \in DOMAIN asked.solve

\* the scrambled stage asked about a cube with misoriented edges and twisted
\* corners
C14_Witness ==
    /\ asked.op = "query"
    /\ asked.step = StepInfo("", "")
    /\ count_bad_edges_fb(cube) > 0
    /\ \E pos \in CornerPositions : corner_at(cube, pos).orientation # 0
    /\ asked.is_solved
    /\ asked.solve = Err("Direct solver is not implemented")

\* ---------------------------------------------------------------------
\* scramble(), solver.rs:23-42

\* the longest pipeline solution followed
MaxScrambleLen == 2

\* Turn's Display: the face letter, then nothing, "2" or "'"
Turn_to_string(t) ==
    t.face \o (CASE t.dir = "Clockwise" -> ""
                 [] t.dir = "Half" -> "2"
                 [] t.dir = "CounterClockwise" -> "'")

\* Algorithm's Display: the normal-side tokens, then the inverse-side tokens
\* between parentheses when there are any
Algorithm_to_string(a) ==
    [i \in 1..Len(a.normal_moves) |-> Turn_to_string(a.normal_moves[i])]
    \o (IF a.inverse_moves = <<>> THEN <<>>
        ELSE <<"(">>
             \o [i \in 1..Len(a.inverse_moves) |->
                    Turn_to_string(a.inverse_moves[i])]
             \o <<")">>)

\* Turn::from_str: the turn a token names
Turn_from_str(token) == CHOOSE t \in Turns : Turn_to_string(t) = token

\* the tokens of a text from its i-th on, read onto the normal side outside
\* parentheses and onto the inverse side inside them
RECURSIVE Algorithm_from_tokens(_, _, _, _)
Algorithm_from_tokens(text, i, inside, a) ==
    IF i > Len(text) THEN a
    ELSE IF text[i] = "(" THEN Algorithm_from_tokens(text, i + 1, TRUE, a)
    ELSE IF text[i] = ")" THEN Algorithm_from_tokens(text, i + 1, FALSE, a)
    ELSE Algorithm_from_tokens(text, i + 1, inside,
            IF inside
            THEN Alg(a.normal_moves,
                     Append(a.inverse_moves, Turn_from_str(text[i])))
            ELSE Alg(Append(a.normal_moves, Turn_from_str(text[i])),
                     a.inverse_moves))

\* LibAlgorithm::from_str, as Algorithm::new and Cube::new use it: the moves
\* as written, none cancelled
Algorithm_from_str(text) == Algorithm_from_tokens(text, 1, FALSE, EmptyAlg)

\* to_uninverted with the whole inverted afterwards
to_uninverted_then_inverted(a) ==
    Alg(invert_moves(a.normal_moves \o invert_moves(a.inverse_moves)), <<>>)

\* LibAlgorithm::to_uninverted: the normal-side moves followed by the
\* inverse-side moves undone in reverse order, all on the normal side
to_uninverted(a) ==
    Alg(a.normal_moves \o invert_moves(a.inverse_moves), <<>>)

\* the solutions the EO, DR, HTR, finish pipeline can return
PipelineSolutions == Algorithms(MaxScrambleLen)

\* the cube an algorithm solves
SolvedBy(a) == Cube_apply(Cube333_default, inverted(a))

\* cubes further from solved than any pipeline solution followed
FarCubes ==
    {Cube_new(Alg(<<M("R", 1), M("U", 1), M("F", 1)>>, <<>>)),
     Cube_new(Alg(<<M("R", 1), M("U", 1), M("F", 1), M("L", 1)>>, <<>>)),
     Cube_new(Alg(<<M("R", 1), M("U", 1), M("F", 1), M("D", 1), M("L", 1)>>,
                  <<>>))}

\* steps.into_worker(cube).next(): the first solution of the pipeline for
\* the cube, if the pipeline has one
pipeline_next(c, found) ==
    IF found = None
    THEN ~ \E a \in PipelineSolutions : apply_alg(c, a) = Cube333_default
    ELSE \E a \in found : apply_alg(c, a) = Cube333_default

\* scramble() with the solution inverted before it is written out
scramble_then_inverted(c, found) ==
    IF found = None
    THEN [op |-> "scramble", solution |-> found,
          result |-> Err("No solutions found")]
    ELSE [op |-> "scramble", solution |-> found,
          result |-> Ok(Algorithm_to_string(
                          to_uninverted_then_inverted(CHOOSE a \in found : TRUE)))]

\* the body of scramble() once the cube is sampled and the pipeline has
\* answered
scramble(c, found) ==
    IF found = None
    THEN [op |-> "scramble", solution |-> found,
          result |-> Err("No solutions found")]
    ELSE [op |-> "scramble", solution |-> found,
          result |-> Ok(Algorithm_to_string(
                          to_uninverted(CHOOSE a \in found : TRUE)))]

ScrambleInit == AlgIdle /\ CubeIdle /\ StageIdle

\* scramble(): sample a cube, solve it, return the solution as text.  The
\* cube sampled is one the pipeline solves or one it does not.
Scramble ==
    /\ solver.op = "idle"
    /\ \/ \E a \in PipelineSolutions :
             /\ pipeline_next(SolvedBy(a), Some(a))
             /\ cube' = SolvedBy(a)
             /\ solver' = scramble(SolvedBy(a), Some(a))
       \/ \E c \in FarCubes :
             /\ pipeline_next(c, None)
             /\ cube' = c
             /\ solver' = scramble(c, None)
    /\ UNCHANGED <<algVars, before, applied, turns, asked>>

ScrambleNext == Scramble

SpecScramble == ScrambleInit /\ [][ScrambleNext]_vars

\* scramble() returned a sequence
Scrambled == solver.op = "scramble" /\ "ok" \in DOMAIN solver.result

\* the algorithm the returned text reads as
Returned == Algorithm_from_str(solver.result.ok)

\* C15 as stated: the sequence scramble() returns is the inverse of the
\* pipeline solution (normal-side moves, then the inverse-side moves in
\* reverse, the whole inverted), and applied to a solved cube it gives
\* exactly the cube that was sampled.
C15_ScrambleGivesSampledCube ==
    Scrambled =>
        /\ \A a \in solver.solution : Returned = to_uninverted_then_inverted(a)
        /\ Cube_new(Returned) = cube

\* C15 amended: the sequence scramble() returns is the pipeline solution
\* itself (normal-side moves, then the inverse-side moves undone in reverse),
\* not inverted, and applied to the sampled cube it gives the solved cube.
C15_ScrambleSolvesSampledCube ==
    Scrambled =>
        /\ \A a \in solver.solution : Returned = to_uninverted(a)
        /\ Cube_apply(cube, Returned) = Cube333_default

\* a scramble from a solution with moves on both sides, whose text applied
\* to a solved cube does not give the sampled cube
C15_Witness ==
    /\ Scrambled
    /\ \E a \in solver.solution :
          a.normal_moves # <<>> /\ a.inverse_moves # <<>>
    /\ Len(Returned.normal_moves) = 2
    /\ Cube_new(Returned) # cube

\* the finish stage was asked about the cube
FinishAsked == asked.op = "query" /\ asked.step.kind = "finish"

\* C16 as stated: the finish stage gives BAD_PIECE|BAD_FACE to every facelet
\* of every edge and corner, whatever the cube.
C16_FinishEveryStickerBad ==
    FinishAsked =>
        /\ \A pos \in EdgePositions :
              asked.edge_visibility[pos + 1]
                  = <<BitOr(BadPiece, BadFace), BitOr(BadPiece, BadFace)>>
        /\ \A pos \in CornerPositions :
              asked.corner_visibility[pos + 1]
                  = <<BitOr(BadPiece, BadFace), BitOr(BadPiece, BadFace),
                      BitOr(BadPiece, BadFace)>>

\* what the finish stage gives each facelet of a position: everything when
\* the piece there is not the position's own, ANY alone when it is
FinishFlags(home) ==
    IF home THEN Visibility_Any
    ELSE BitOr(Visibility_Any, BitOr(BadPiece, BadFace))

\* C16 amended: the finish stage gives ANY|BAD_PIECE|BAD_FACE to every
\* facelet of an edge or corner position that does not hold its own piece,
\* and exactly ANY to every facelet of a position that does.
C16_FinishMisplacedStickersBad ==
    FinishAsked =>
        /\ \A pos \in EdgePositions :
              asked.edge_visibility[pos + 1]
                  = <<FinishFlags(edge_at(cube, pos).id = pos),
                      FinishFlags(edge_at(cube, pos).id = pos)>>
        /\ \A pos \in CornerPositions :
              asked.corner_visibility[pos + 1]
                  = <<FinishFlags(corner_at(cube, pos).id = pos),
                      FinishFlags(corner_at(cube, pos).id = pos),
                      FinishFlags(corner_at(cube, pos).id = pos)>>

\* the finish stage asked about a cube with pieces at home and pieces away
\* from home, among the edges and among the corners
C16_Witness ==
    /\ FinishAsked
    /\ \E p, r \in EdgePositions :
          /\ edge_at(cube, p).id = p /\ edge_at(cube, r).id # r
          /\ asked.edge_visibility[p + 1] = <<1, 1>>
          /\ asked.edge_visibility[r + 1] = <<7, 7>>
    /\ \E p, r \in CornerPositions :
          /\ corner_at(cube, p).id = p /\ corner_at(cube, r).id # r
          /\ asked.corner_visibility[p + 1] = <<1, 1, 1>>
          /\ asked.corner_visibility[r + 1] = <<7, 7, 7>>

\* C17 as stated: the finish stage is eligible exactly when HTR is solved on
\* the UD axis.
C17_FinishEligibleIffHtrSolved ==
    FinishAsked => (asked.is_eligible <=> HTRUD(cube).is_solved)

\* C17 amended: the finish stage is eligible for every cube, whether or not
\* HTR is solved on the UD axis.
C17_FinishAlwaysEligible ==
    FinishAsked => asked.is_eligible

\* the finish stage asked about a cube on which HTR is not solved
C17_Witness ==
    /\ FinishAsked
    /\ ~HTRUD(cube).is_solved
    /\ ~HTRUD(cube).is_eligible
    /\ asked.is_eligible

\* an EO variant was asked about the cube
EOAsked == asked.op = "query" /\ asked.step.kind = "eo"

\* the edge at a position is misoriented on the axis of an EO variant
Misoriented(c, pos, variant) ==
    CASE variant = "ud" -> ~edge_at(c, pos).oriented_ud
      [] variant = "fb" -> ~edge_at(c, pos).oriented_fb
      [] variant = "rl" -> ~edge_at(c, pos).oriented_rl

\* the edge positions an answer flags bad
FlaggedBad(flags) ==
    {pos \in EdgePositions : HasBit(flags[pos + 1][1], BadPiece)}

\* the cube reached from solved by R U F
CubeRUF == Cube_new(Alg(<<M("R", 1), M("U", 1), M("F", 1)>>, <<>>))

\* C18: an EO variant gives both facelets of an edge BAD_FACE|BAD_PIECE
\* exactly when the edge there is misoriented on the variant's axis and ANY
\* otherwise, gives every corner facelet ANY, names the case by the number
\* of edges flagged bad followed by "e", and is solved exactly when that
\* number is zero; on the cube of R U F the FB variant flags edge position 2
\* with BAD_FACE.
C18_EOFlagsMisorientedEdges ==
    EOAsked =>
        /\ \A pos \in EdgePositions :
              asked.edge_visibility[pos + 1]
                  = IF Misoriented(cube, pos, asked.step.variant)
                    THEN <<BitOr(BadFace, BadPiece), BitOr(BadFace, BadPiece)>>
                    ELSE <<Visibility_Any, Visibility_Any>>
        /\ \A pos \in CornerPositions :
              asked.corner_visibility[pos + 1]
                  = <<Visibility_Any, Visibility_Any, Visibility_Any>>
        /\ asked.case_name
              = ToString(Cardinality(FlaggedBad(asked.edge_visibility))) \o "e"
        /\ asked.is_solved <=> Cardinality(FlaggedBad(asked.edge_visibility)) = 0
        /\ (cube = CubeRUF /\ asked.step.variant = "fb") =>
              HasBit(asked.edge_visibility[3][1], BadFace)

\* the FB variant asked about the cube of R U F: position 2 is flagged,
\* some edge is not, and the case is not the solved one
C18_Witness ==
    /\ EOAsked
    /\ asked.step.variant = "fb"
    /\ cube = CubeRUF
    /\ HasBit(asked.edge_visibility[3][1], BadFace)
    /\ \E pos \in EdgePositions :
          asked.edge_visibility[pos + 1] = <<Visibility_Any, Visibility_Any>>
    /\ ~asked.is_solved
    /\ asked.case_name # "0e"

\* C19: on the cube of R U F the htr/ud stage sets the BAD_FACE bit on
\* facelet 0 of edge position 0.
C19_HtrUdFlagsFirstFacelet ==
    (asked.op = "query" /\ asked.step = StepInfo("htr", "ud") /\ cube = CubeRUF)
        => HasBit(asked.edge_visibility[1][1], BadFace)

\* ---------------------------------------------------------------------
\* Algorithm::new(text) followed by appends

\* the longest text parsed
MaxTextLen == 3

\* the moves the parsed texts are written with
TextTurns == {t \in Turns : t.face \in {"F", "B", "U"}}

RECURSIVE TextSeqs(_)
TextSeqs(n) ==
    IF n = 0 THEN {<<>>}
    ELSE TextSeqs(n - 1)
            \cup {Append(s, t) : s \in {x \in TextSeqs(n - 1) : Len(x) = n - 1},
                                 t \in TextTurns}

\* the texts parsed: moves on the normal side, or inside parentheses
ParsedTexts ==
    {Algorithm_to_string(Alg(m, <<>>)) : m \in TextSeqs(MaxTextLen)}
        \cup {Algorithm_to_string(Alg(<<>>, m)) : m \in TextSeqs(MaxTextLen)}

\* Algorithm::new(text)
ParsedInit ==
    /\ \E text \in ParsedTexts : alg = Algorithm_from_str(text)
    /\ prev = alg
    /\ last = NoOp
    /\ CubeIdle
    /\ StageIdle

ParsedNext == AppendNormal \/ AppendInverse

SpecParsed == ParsedInit /\ [][ParsedNext]_vars

\* C20 as stated: an append leaves every move of the side before its last
\* two where it was, and leaves the move before the last where it was unless
\* the last move is on the face opposite to the appended move's.
C20_ScanAtMostOneBack ==
    last.op = "append" =>
        LET s == side_of(prev, last.inverse)
            r == side_of(alg, last.inverse)
            n == Len(s)
        IN  /\ Len(r) >= n - 2
            /\ \A j \in 1..(n - 2) : r[j] = s[j]
            /\ (n >= 2 /\ s[n].face # opposite(last.turn.face)) =>
                   (Len(r) >= n - 1 /\ r[n - 1] = s[n - 1])

\* the index the scan stops at: the last move of the side that is not on
\* the face opposite to the appended move's; 0 when every move is
StopsAt(s, turn) ==
    LET seen == {i \in 1..Len(s) : s[i].face # opposite(turn.face)}
    IN  IF seen = {} THEN 0 ELSE CHOOSE i \in seen : \A j \in seen : j <= i

\* C20 amended: the scan walks back from the last move of the side over
\* every move on the face opposite to the appended move's, however many
\* there are, and stops at the first move on another face; that move is
\* removed when it is the inverse of the appended move, replaced when it is
\* on the appended move's face, and otherwise the appended move is pushed;
\* no other move of the side is replaced or removed.
C20_ScanOverOppositeRun ==
    last.op = "append" =>
        LET s == side_of(prev, last.inverse)
            r == side_of(alg, last.inverse)
            k == StopsAt(s, last.turn)
        IN  /\ other_side_of(alg, last.inverse) = other_side_of(prev, last.inverse)
            /\ IF k > 0 /\ s[k] = invert(last.turn)
               THEN r = RemoveAt(s, k)
               ELSE IF k > 0 /\ s[k].face = last.turn.face
               THEN /\ Len(r) = Len(s)
                    /\ r[k].face = last.turn.face
                    /\ \A j \in 1..Len(s) : j # k => r[j] = s[j]
               ELSE r = Append(s, last.turn)

\* F' appended to the parsed side F B B: the scan passed two moves on the
\* opposite face and removed the third move from the end
C20_Witness ==
    /\ last.op = "append"
    /\ last.turn = F_("CounterClockwise")
    /\ side_of(prev, last.inverse) = <<F_("Clockwise"), T("B", "Clockwise"), T("B", "Clockwise")>>
    /\ side_of(alg, last.inverse) = <<T("B", "Clockwise"), T("B", "Clockwise")>>

\* ---------------------------------------------------------------------
\* The case-dedup filter within one solve call

\* the call holds the canonicality filter
RequireCanonical ==
    \E n \in 1..Len(solver.call.predicates) :
        solver.call.predicates[n].name = "FilterLastMoveNotPrime"

\* the sequences visited so far that the search yielded and that came
\* through to the case-dedup filter
Reached ==
    {i \in 0..(solver.next - 1) :
        /\ Yields(solver.call.cfg, cube, Candidate(i))
        /\ RequireCanonical =>
              FilterLastMoveNotPrime_check_solution(solver.st, Candidate(i)).accepted}

\* the bit pattern of the cube a sequence leaves, applied once
LeftBy(i) == cube_bits(apply_alg(cube, Candidate(i)))

\* C21: for the stages with the default case identity, the identity of a
\* candidate is the bit pattern of the cube with the candidate applied
\* once, so two candidates have one identity exactly when they leave the
\* cube in the same state.
C21_RawIdentityOfResult ==
    (solver.op = "solve" /\ CaseIdFn.fn = "raw") =>
        /\ \A i \in Reached : CaseIdOf(Candidate(i)) = LeftBy(i)
        /\ \A i, j \in Reached :
              (CaseIdOf(Candidate(i)) = CaseIdOf(Candidate(j)))
                  <=> (LeftBy(i) = LeftBy(j))

U2D2 == Alg(<<HalfTurn("U"), HalfTurn("D")>>, <<>>)

\* the cube a visited sequence leaves
CubeLeftBy(i) == apply_alg(cube, Candidate(i))

\* an htr solve is in progress
HtrSolve == solver.op = "solve" /\ solver.step.kind = "htr"

\* the sequences of the output, as a set
Returned_set == {solver.out[n] : n \in 1..Len(solver.out)}

\* the sequence the search visited last reached the dedup filter
LastChecked ==
    /\ solver.next >= 1
    /\ Yields(solver.call.cfg, cube, Candidate(solver.next - 1))
    /\ RequireCanonical =>
          FilterLastMoveNotPrime_check_solution(solver.st,
                                                Candidate(solver.next - 1)).accepted

SearchedKinds ==
    [n \in 1..Len(solver.call.step_config.ok) |->
        solver.call.step_config.ok[n].step.kind]

MaxSteps == 2

\* StepKind::Other(s)
Other(s) == "Other(" \o s \o ")"

\* the step kinds a step configuration may carry
StepKinds == {"EO", "DR", "HTR", "FR", "FRLS", "FIN", "FINLS"}

\* the active steps group may be called with
ActiveSteps == StepKinds \cup {Other(""), Other("insertions")}

RECURSIVE KindSeqs(_)
\* the sequences of at most n step kinds
KindSeqs(n) ==
    IF n = 0 THEN {<<>>}
    ELSE KindSeqs(n - 1)
         \cup {Append(k, kind) : k \in {x \in KindSeqs(n - 1) : Len(x) = n - 1},
                                  kind \in StepKinds}

\* the step configurations of a sequence of kinds
StepsOf(kinds) ==
    [n \in 1..Len(kinds) |-> step_config(kinds[n], "", NissUnset)]

RECURSIVE collect_steps(_, _)
\* single_step mapped over the first n steps and collected: the first
\* error, or the step groups in order (StepGroup::sequential)
collect_steps(steps, n) ==
    IF n = 0 THEN [ok |-> <<>>]
    ELSE IF "err" \in DOMAIN collect_steps(steps, n - 1)
    THEN collect_steps(steps, n - 1)
    ELSE IF "err" \in DOMAIN single_step(steps[n])
    THEN single_step(steps[n])
    ELSE [ok |-> collect_steps(steps, n - 1).ok \o single_step(steps[n]).ok]

\* a group whose match also names FRLS beside FR and FINLS beside FIN
group_with_ls(active_step, steps_to_solve) ==
    IF steps_to_solve = <<>> THEN Err("No steps provided")
    ELSE IF /\ active_step = Other("")
            /\ steps_to_solve[1].kind \in {"DR", "HTR", "FR", "FRLS", "FIN", "FINLS"}
    THEN Err("Cannot jump to " \o steps_to_solve[1].kind)
    ELSE IF \/ /\ active_step = "EO"
               /\ steps_to_solve[1].kind \in {"DR", "HTR", "FR", "FRLS", "FIN", "FINLS"}
            \/ /\ active_step = "DR"
               /\ steps_to_solve[1].kind \in {"HTR", "FR", "FRLS", "FIN", "FINLS"}
    THEN Err("Must solve " \o active_step \o " before " \o steps_to_solve[1].kind)
    ELSE IF \/ /\ active_step \in {"DR", "HTR", "FR", "FRLS", "FIN", "FINLS"}
               /\ steps_to_solve[1].kind = "EO"
            \/ /\ active_step \in {"HTR", "FR", "FRLS", "FIN", "FINLS"}
               /\ steps_to_solve[1].kind = "DR"
            \/ /\ active_step \in {"FR", "FRLS", "FIN", "FINLS"}
               /\ steps_to_solve[1].kind = "HTR"
            \/ /\ active_step \in {"FIN", "FINLS"}
               /\ steps_to_solve[1].kind \in {"FR", "FRLS"}
    THEN Err("Already in " \o steps_to_solve[1].kind)
    ELSE IF active_step = Other("insertions")
    THEN Err("Already in " \o steps_to_solve[1].kind)
    ELSE IF "err" \in DOMAIN collect_steps(steps_to_solve, Len(steps_to_solve))
    THEN collect_steps(steps_to_solve, Len(steps_to_solve))
    ELSE Ok([steps |-> collect_steps(steps_to_solve, Len(steps_to_solve)).ok,
             predicates |->
                IF steps_to_solve[Len(steps_to_solve)].kind \in {"EO", "DR", "HTR"}
                THEN <<[name |-> "FilterLastMoveNotPrime"]>>
                ELSE <<>>])

\* group: the match on (active step, kind of the first step), arm by arm,
\* then the steps built one by one and put in sequence
group(active_step, steps_to_solve) ==
    IF steps_to_solve = <<>> THEN Err("No steps provided")
    ELSE IF /\ active_step = Other("")
            /\ steps_to_solve[1].kind \in {"DR", "HTR", "FR", "FIN"}
    THEN Err("Cannot jump to " \o steps_to_solve[1].kind)
    ELSE IF \/ /\ active_step = "EO"
               /\ steps_to_solve[1].kind \in {"DR", "HTR", "FR", "FIN"}
            \/ /\ active_step = "DR"
               /\ steps_to_solve[1].kind \in {"HTR", "FR", "FIN"}
    THEN Err("Must solve " \o active_step \o " before " \o steps_to_solve[1].kind)
    ELSE IF \/ /\ active_step \in {"DR", "HTR", "FR", "FIN"}
               /\ steps_to_solve[1].kind = "EO"
            \/ /\ active_step \in {"HTR", "FR", "FIN"}
               /\ steps_to_solve[1].kind = "DR"
            \/ /\ active_step \in {"FR", "FIN"}
               /\ steps_to_solve[1].kind = "HTR"
            \/ /\ active_step = "FIN"
               /\ steps_to_solve[1].kind = "FR"
    THEN Err("Already in " \o steps_to_solve[1].kind)
    ELSE IF active_step = Other("insertions")
    THEN Err("Already in " \o steps_to_solve[1].kind)
    ELSE IF "err" \in DOMAIN collect_steps(steps_to_solve, Len(steps_to_solve))
    THEN collect_steps(steps_to_solve, Len(steps_to_solve))
    ELSE Ok([steps |-> collect_steps(steps_to_solve, Len(steps_to_solve)).ok,
             predicates |->
                IF steps_to_solve[Len(steps_to_solve)].kind \in {"EO", "DR", "HTR"}
                THEN <<[name |-> "FilterLastMoveNotPrime"]>>
                ELSE <<>>])

GroupInit == AlgIdle /\ CubeIdle /\ StageIdle

\* one call of group
Group ==
    /\ solver.op = "idle"
    /\ \E active_step \in ActiveSteps, kinds \in KindSeqs(MaxSteps) :
          solver' = [op |-> "group", active_step |-> active_step,
                     steps_to_solve |-> StepsOf(kinds),
                     result |-> group(active_step, StepsOf(kinds))]
    /\ UNCHANGED <<algVars, cubeVars, turns, asked>>

GroupNext == Group

SpecGroup == GroupInit /\ [][GroupNext]_vars

\* the place of a step in the stage order; scrambled comes before EO
StageRank(kind) ==
    CASE kind = Other("") -> 0
      [] kind = "EO" -> 1
      [] kind = "DR" -> 2
      [] kind = "HTR" -> 3
      [] kind \in {"FR", "FRLS"} -> 4
      [] kind \in {"FIN", "FINLS"} -> 5

\* the calls the stage order refuses
OutOfOrder(active_step, steps_to_solve) ==
    \/ steps_to_solve = <<>>
    \/ active_step = Other("insertions")
    \/ /\ steps_to_solve # <<>>
       /\ active_step # Other("insertions")
       /\ \/ StageRank(steps_to_solve[1].kind) < StageRank(active_step)
          \/ /\ StageRank(active_step) <= 2
             /\ StageRank(steps_to_solve[1].kind) > 1
             /\ StageRank(steps_to_solve[1].kind) > StageRank(active_step)

\* C25: group returns an error and builds nothing exactly when steps is
\* empty, the active step is insertions, the first step's stage is earlier
\* than the active stage, or the active step is scrambled, EO or DR and the
\* first step is later than EO, EO or DR; every other call is accepted.
C25_GroupEnforcesStageOrder ==
    solver.op = "group" =>
        ("err" \in DOMAIN solver.result
            <=> OutOfOrder(solver.active_step, solver.steps_to_solve))

\* an fr/ud query has been answered
FrUdAsked == asked.op = "query" /\ asked.step = StepInfo("fr", "ud")

\* the edges in E-slice positions that are neither the position's own edge
\* nor the edge of its opposite-slot position
SliceEdgesOff(c) ==
    {pos \in 4..7 : /\ edge_at(c, pos).id # pos
                     /\ edge_at(c, pos).id # EDGE_OPPOSITE_E_SLICE[pos + 1]}

\* the positions outside the E slice whose edge is neither the position's
\* own edge nor the edge of the position opposite it across the E slice
LayerEdgesOff(c) ==
    {pos \in (0..3) \cup (8..11) :
        /\ edge_at(c, pos).id # pos
        /\ edge_at(c, pos).id # EDGE_OPPOSITE_E_SLICE[pos + 1]}

\* C26 as stated: in the fr/ud case name `<CORNERCASE> <be>e`, be is the
\* number of E-slice edges (positions 4..7) neither in their own position
\* nor in their opposite-slot position.
C26_BadEdgesCountedInSlice ==
    FrUdAsked =>
        asked.case_name = FR_corner_case(cube) \o " "
            \o ToString(Cardinality(SliceEdgesOff(cube))) \o "e"

\* C26 amended: be is the number of positions outside the E slice (0..3 and
\* 8..11) whose edge is neither the position's own edge nor the edge of the
\* position opposite it across the E slice.
C26_BadEdgesCountedOutsideSlice ==
    FrUdAsked =>
        asked.case_name = FR_corner_case(cube) \o " "
            \o ToString(Cardinality(LayerEdgesOff(cube))) \o "e"

\* an fr/ud case name was returned for a cube where the two counts differ
C26_Witness ==
    /\ FrUdAsked
    /\ Cardinality(LayerEdgesOff(cube)) > 0
    /\ Cardinality(LayerEdgesOff(cube)) # Cardinality(SliceEdgesOff(cube))

\* the visibility values of the last query, over every position and facelet
AskedEdgeValues ==
    {asked.edge_visibility[p][f] : p \in 1..12, f \in 1..2}

AskedCornerValues ==
    {asked.corner_visibility[p][f] : p \in 1..8, f \in 1..3}

\* C27: for every stage, cube, piece position and facelet, a visibility
\* value with the BAD_FACE bit set has the BAD_PIECE bit set too, for
\* edge_visibility and for corner_visibility.
C27_BadFaceImpliesBadPiece ==
    asked.op = "query" =>
        \A v \in AskedEdgeValues \cup AskedCornerValues :
            HasBit(v, BadFace) => HasBit(v, BadPiece)

\* a query returned BAD_FACE on an edge facelet and on a corner facelet
C27_Witness ==
    /\ asked.op = "query"
    /\ \E v \in AskedEdgeValues : HasBit(v, BadFace) /\ HasBit(v, BadPiece)
    /\ \E v \in AskedCornerValues : HasBit(v, BadFace) /\ HasBit(v, BadPiece)

\* r is s with at most one existing move changed or removed, or s with one
\* move pushed at the end
OneMoveTouched(s, r, turn) ==
    \/ r = Append(s, turn)
    \/ r = s
    \/ \E k \in 1..Len(s) :
          \/ r = RemoveAt(s, k)
          \/ /\ Len(r) = Len(s)
             /\ \A j \in 1..Len(s) : j # k => r[j] = s[j]

\* the result of the last append against the algorithm it was called on
AppendOneSided ==
    last.op = "append" =>
        /\ other_side_of(alg, last.inverse) = other_side_of(prev, last.inverse)
        /\ OneMoveTouched(side_of(prev, last.inverse), side_of(alg, last.inverse),
                          last.turn)
        /\ len(alg) - len(prev) \in {-1, 0, 1}

\* C28: append(M, side) leaves the algorithm it is called on as it was; in
\* the result the other side's moves are identical, at most one existing
\* move of the chosen side is changed or removed, and the total length
\* differs by -1, 0 or +1.
C28_AppendPureOneSided ==
    /\ []AppendOneSided
    /\ [][last'.op = "append" => prev' = alg]_vars

\* an append changed an existing move of its side while the other side
\* holds moves
C28_Witness ==
    /\ last.op = "append"
    /\ other_side_of(prev, last.inverse) # <<>>
    /\ Len(side_of(alg, last.inverse)) = Len(side_of(prev, last.inverse))
    /\ Len(side_of(prev, last.inverse)) >= 1
    /\ side_of(alg, last.inverse)[1] # side_of(prev, last.inverse)[1]

\* the sequence the search is at is a solution that reaches the dedup
\* filter: the filters before it let it through
ReachesDedup ==
    /\ solver.op = "solve"
    /\ ~solver.done
    /\ Yields(solver.call.cfg, cube, Candidate(solver.next))
    /\ RequireCanonical =>
          FilterLastMoveNotPrime_check_solution(solver.st,
                                                Candidate(solver.next)).accepted

\* what the dedup filter does with the candidate that reaches it: it accepts
\* it exactly when its identity is not among those of the candidates checked
\* before, and its identity is among the seen ones afterwards
ChecksAgainstEarlier ==
    ReachesDedup =>
        /\ solver'.st.seen
              = solver.st.seen \cup {CaseIdOf(Candidate(solver.next))}
        /\ IF CaseIdOf(Candidate(solver.next)) \in solver.st.seen
           THEN solver'.out = solver.out
           ELSE solver'.out = Append(solver.out, Candidate(solver.next))

\* the seen identities are those of the output, one candidate each
SeenIsOutput ==
    solver.op = "solve" =>
        /\ solver.st.seen = {CaseIdOf(solver.out[n]) : n \in 1..Len(solver.out)}
        /\ Cardinality(solver.st.seen) = Len(solver.out)

\* C29: a candidate reaching the dedup filter is accepted exactly when no
\* earlier candidate checked by the same filter had its case identity; the
\* set of seen identities only grows during a solve call; so every case
\* identity met so far is represented in the output by its earliest
\* candidate.
C29_DedupKeepsFirstOccurrences ==
    /\ []SeenIsOutput
    /\ [][ChecksAgainstEarlier]_vars
    /\ [][solver.op = "solve" => solver.st.seen \subseteq solver'.st.seen]_vars

\* the filter has just rejected a candidate whose identity it had seen,
\* after accepting first occurrences of two identities
C29_Witness ==
    /\ solver.op = "solve"
    /\ LastChecked
    /\ Candidate(solver.next - 1) \notin Returned_set
    /\ CaseIdOf(Candidate(solver.next - 1)) \in solver.st.seen
    /\ Len(solver.out) >= 2

\* an htr query has been answered
HtrAsked == asked.op = "query" /\ asked.step.kind = "htr"

\* C30: for every cube, htr/ud, htr/fb and htr/rl return the same is_solved,
\* the same is_eligible and the same case_name; their visibility and the
\* transform of their case identity are what differs.
C30_HtrVariantsClassifyAlike ==
    HtrAsked =>
        /\ \A v \in {HTRUD(cube), HTRFB(cube), HTRRL(cube)} :
              /\ asked.is_solved = v.is_solved
              /\ asked.is_eligible = v.is_eligible
              /\ asked.case_name = v.case_name
        /\ HTRUD(cube).solve.predicates # HTRFB(cube).solve.predicates
        /\ HTRUD(cube).solve.predicates # HTRRL(cube).solve.predicates
        /\ HTRFB(cube).solve.predicates # HTRRL(cube).solve.predicates

\* an htr/rl query on a cube that is not eligible, where the visibility of
\* the three variants differs pairwise
C30_Witness ==
    /\ HtrAsked
    /\ asked.step.variant = "rl"
    /\ ~asked.is_eligible
    /\ HTRUD(cube).edge_visibility # HTRFB(cube).edge_visibility
    /\ HTRUD(cube).edge_visibility # HTRRL(cube).edge_visibility
    /\ HTRFB(cube).edge_visibility # HTRRL(cube).edge_visibility

====
